---- MODULE Spec2Model ----
(***************************************************************************)
(* Model of the SreBuddy classification / plan / template-matching core:   *)
(*   SreTaskParser   (src/src/mcpInstaller.ts, second half of the file)    *)
(*   SrePromptLoader (src/src/logger.ts, second half of the file): the     *)
(*                   template matcher, the corpus parser and the prompt    *)
(*                   composer                                              *)
(* and of the extension host around it:                                    *)
(*   activate, autoInstallMcpServers, setupWorkspaceFolder                 *)
(*                   (src/src/extension.ts)                                *)
(*   installMcpServersToVSCode, checkExistingMcpServers                    *)
(*                   (src/src/mcpInstaller.ts, first half of the file)     *)
(*   SreBuddyChatParticipant.handleRequest (src/src/chatParticipant.ts)    *)
(* Strings are TLA+ strings; TLC evaluates Len, SubSeq, Head, Tail and \o  *)
(* on them character by character, so regular expressions and case        *)
(* folding are computed on the characters, as the code computes them.      *)
(***************************************************************************)
EXTENDS Integers, Sequences, FiniteSets, TLC

VARIABLES
    pc,          \* position of the caller: "start" | "parsed" | "planned" | "matched"
                 \*   | "file" | "loaded" | "idle" | "composed"
    input,       \* the string handed to parseTask
    context,     \* SreTaskContext returned by parseTask (NoContext before)
    plan,        \* SreImplementationPlan returned by generateImplementationPlan
    templates,   \* SrePromptLoader.templates
    command,     \* the command handed to findBestMatchingTemplate
    template,    \* result of findBestMatchingTemplate: <<>> (null) or <<t>>
    file,        \* the file at SrePromptLoader.instructionsPath
    prompt,      \* the string getPromptForTask returned
    fault,       \* the step of the last getPromptForTask call that threw
    globalState, \* context.globalState: the two persistent flags
    settingsFile,\* the file at getVSCodeSettingsPath()
    result,      \* what the last installMcpServersToVSCode call returned
    activation,  \* the activate() call: its position and its pending callbacks
    messages,    \* per activation, the information messages it has shown
    workspace,   \* the workspace folder and its .github/copilot-instructions.md
    invocations, \* position of each setupWorkspaceFolder call in flight
    chat         \* the chat request being handled

\* the request pipeline of the parser and the prompt loader
coreVars == <<pc, input, context, plan, templates, command, template, file, prompt, fault>>

\* the extension host: activation, settings, workspace and chat
hostVars == <<globalState, settingsFile, result, activation, messages, workspace,
              invocations, chat>>

vars == <<pc, input, context, plan, templates, command, template, file, prompt, fault,
          globalState, settingsFile, result, activation, messages, workspace,
          invocations, chat>>

-----------------------------------------------------------------------------
(* Bounds of the model *)

\* number of vocabulary pieces concatenated into one request string
MaxPieces == 2

-----------------------------------------------------------------------------
(* JavaScript strings *)

\* JS `undefined` / `null` of an optional value; a present value v is <<v>>
undefined == <<>>

Some(v) == <<v>>

\* the characters \s matches, restricted to the ones the inputs use
Whitespace == {" ", "\t", "\n"}

UpperToLower ==
    [c \in {"A","B","C","D","E","F","G","H","I","J","K","L","M","N","O","P","Q",
            "R","S","T","U","V","W","X","Y","Z"} |->
        CASE c = "A" -> "a" [] c = "B" -> "b" [] c = "C" -> "c" [] c = "D" -> "d"
          [] c = "E" -> "e" [] c = "F" -> "f" [] c = "G" -> "g" [] c = "H" -> "h"
          [] c = "I" -> "i" [] c = "J" -> "j" [] c = "K" -> "k" [] c = "L" -> "l"
          [] c = "M" -> "m" [] c = "N" -> "n" [] c = "O" -> "o" [] c = "P" -> "p"
          [] c = "Q" -> "q" [] c = "R" -> "r" [] c = "S" -> "s" [] c = "T" -> "t"
          [] c = "U" -> "u" [] c = "V" -> "v" [] c = "W" -> "w" [] c = "X" -> "x"
          [] c = "Y" -> "y" [] c = "Z" -> "z"]

\* String.prototype.toLowerCase, on ASCII
RECURSIVE toLowerCase(_)
toLowerCase(s) ==
    IF s = "" THEN ""
    ELSE LET c == Head(s)
         IN  (IF c \in DOMAIN UpperToLower THEN UpperToLower[c] ELSE c)
                 \o toLowerCase(Tail(s))

\* String.prototype.toUpperCase, on ASCII
RECURSIVE toUpperCase(_)
toUpperCase(s) ==
    IF s = "" THEN ""
    ELSE LET c == Head(s)
             up == {u \in DOMAIN UpperToLower : UpperToLower[u] = c}
         IN  (IF up # {} THEN CHOOSE u \in up : TRUE ELSE c) \o toUpperCase(Tail(s))

\* the literal w occurs in s at index i
StartsAt(s, i, w) ==
    /\ i + Len(w) - 1 <= Len(s)
    /\ SubSeq(s, i, i + Len(w) - 1) = w

\* String.prototype.includes
Includes(s, w) == \E i \in 1..(Len(s) - Len(w) + 1) : StartsAt(s, i, w)

\* first index >= i of s that holds no whitespace character (Len(s)+1 if none)
RECURSIVE SkipWhitespace(_, _)
SkipWhitespace(s, i) ==
    IF i <= Len(s) /\ SubSeq(s, i, i) \in Whitespace
    THEN SkipWhitespace(s, i + 1)
    ELSE i

\* first index >= i of s that holds a whitespace character (Len(s)+1 if none)
RECURSIVE SkipToWhitespace(_, _)
SkipToWhitespace(s, i) ==
    IF i <= Len(s) /\ SubSeq(s, i, i) \notin Whitespace
    THEN SkipToWhitespace(s, i + 1)
    ELSE i

\* String.prototype.split(/\s+/): the maximal whitespace-free runs, with an
\* empty first (last) token when the string starts (ends) with whitespace
RECURSIVE SplitFrom(_, _)
SplitFrom(s, i) ==
    LET j == SkipToWhitespace(s, i)
        k == SkipWhitespace(s, j)
    IN  IF j > Len(s) THEN << SubSeq(s, i, Len(s)) >>
        ELSE << SubSeq(s, i, j - 1) >> \o SplitFrom(s, k)

SplitWhitespace(s) == SplitFrom(s, 1)

-----------------------------------------------------------------------------
(* Regular expressions of the parser.  Every test pattern of SreTaskParser *)
(* is an alternation of literals in which \s+ may separate words: a        *)
(* pattern is a sequence of alternatives, an alternative is the sequence   *)
(* of its literal words (<<"set","up">> is set\s+up).                      *)

\* the words ws[k..] match s at index i, \s+ between consecutive words
RECURSIVE WordsMatchAt(_, _, _, _)
WordsMatchAt(s, i, ws, k) ==
    /\ StartsAt(s, i, ws[k])
    /\ \/ k = Len(ws)
       \/ LET j == i + Len(ws[k])
          IN  /\ j <= Len(s)
              /\ SubSeq(s, j, j) \in Whitespace
              /\ WordsMatchAt(s, SkipWhitespace(s, j), ws, k + 1)

\* RegExp.prototype.test for a pattern without flags
RegexTest(pattern, s) ==
    \E a \in 1..Len(pattern) : \E i \in 1..Len(s) : WordsMatchAt(s, i, pattern[a], 1)

\* RegExp.prototype.test for a pattern with the i flag (patterns are lower case)
RegexTestI(pattern, s) == RegexTest(pattern, toLowerCase(s))

\* first index >= i of s that holds no character of class (Len(s)+1 if none)
RECURSIVE RunEnd(_, _, _)
RunEnd(s, i, class) ==
    IF i <= Len(s) /\ SubSeq(s, i, i) \in class
    THEN RunEnd(s, i + 1, class)
    ELSE i

(* A capturing alternative  lit(\s+)?([class]+)  of the parameter probes is *)
(* [lit, ws, class]; ws tells whether \s+ stands between lit and the group. *)

\* index at which the group of probe p starts when p is tried at index i of
\* t, 0 when the part before the group does not match there
GroupStart(t, i, p) ==
    IF ~StartsAt(t, i, p.lit) THEN 0
    ELSE LET j == i + Len(p.lit)
         IN  IF ~p.ws THEN j
             ELSE IF j <= Len(t) /\ SubSeq(t, j, j) \in Whitespace
                  THEN SkipWhitespace(t, j)
                  ELSE 0

\* probe p matches at index i of t (its greedy group takes at least one character)
ProbeMatchesAt(t, i, p) ==
    LET b == GroupStart(t, i, p)
    IN  b # 0 /\ RunEnd(t, b, p.class) > b

\* String.prototype.match(/p1|p2/) followed by  m[1] || m[2] : the group of
\* the leftmost match, the first alternative winning at equal index;
\* undefined when nothing matches.  ignoreCase is the i flag: the match is
\* found on the folded string and the group is cut from the string itself.
MatchGroup(probes, s, ignoreCase) ==
    LET t    == IF ignoreCase THEN toLowerCase(s) ELSE s
        hits == {i \in 1..Len(t) : \E a \in 1..Len(probes) : ProbeMatchesAt(t, i, probes[a])}
    IN  IF hits = {} THEN undefined
        ELSE LET i == CHOOSE h \in hits : \A g \in hits : h <= g
                 a == CHOOSE k \in 1..Len(probes) :
                        /\ ProbeMatchesAt(t, i, probes[k])
                        /\ \A l \in 1..(k - 1) : ~ProbeMatchesAt(t, i, probes[l])
                 b == GroupStart(t, i, probes[a])
             IN  Some(SubSeq(s, b, RunEnd(t, b, probes[a].class) - 1))

-----------------------------------------------------------------------------
(* SreTaskParser: the classifier *)

\* enum SreTaskType
SreTaskType == {"implement", "configure", "monitor", "deploy", "docs", "troubleshoot"}

\* the patterns of extractTaskType, in the order of its if statements
MonitorPattern      == << <<"monitor">>, <<"monitoring">>, <<"alert">>, <<"alerting">>, <<"dashboard">> >>
ImplementPattern    == << <<"implement">>, <<"install">>, <<"setup">>, <<"add">> >>
ConfigurePattern    == << <<"configure">>, <<"config">>, <<"set", "up">>, <<"customize">> >>
DeployPattern       == << <<"deploy">>, <<"deployment">>, <<"release">>, <<"rollout">> >>
DocsPattern         == << <<"doc">>, <<"documentation">>, <<"guide">>, <<"help">>, <<"reference">> >>
TroubleshootPattern == << <<"troubleshoot">>, <<"debug">>, <<"issue">>, <<"problem">>, <<"fix">> >>

\* SreTaskParser.toolPatterns, a Map iterated in insertion order
toolPatterns == <<
    [tool |-> "dynatrace",     pattern |-> << <<"dynatrace">>, <<"dt", "agent">>, <<"dynatrace", "agent">> >>],
    [tool |-> "datadog",       pattern |-> << <<"datadog">>, <<"dd", "agent">>, <<"datadog", "agent">> >>],
    [tool |-> "prometheus",    pattern |-> << <<"prometheus">>, <<"prom", "monitoring">>, <<"prometheus", "monitoring">> >>],
    [tool |-> "grafana",       pattern |-> << <<"grafana">>, <<"grafana", "dashboard">> >>],
    [tool |-> "kubernetes",    pattern |-> << <<"k8s">>, <<"kubernetes">>, <<"kubectl">>, <<"kube">> >>],
    [tool |-> "docker",        pattern |-> << <<"docker">>, <<"container">>, <<"containerize">> >>],
    [tool |-> "terraform",     pattern |-> << <<"terraform">>, <<"tf", "deploy">>, <<"infrastructure", "as", "code">> >>],
    [tool |-> "ansible",       pattern |-> << <<"ansible">>, <<"playbook">>, <<"automation">> >>],
    [tool |-> "nginx",         pattern |-> << <<"nginx">>, <<"reverse", "proxy">>, <<"load", "balancer">> >>],
    [tool |-> "redis",         pattern |-> << <<"redis">>, <<"cache">>, <<"caching">> >>],
    [tool |-> "elasticsearch", pattern |-> << <<"elasticsearch">>, <<"elk", "stack">>, <<"elastic">> >>],
    [tool |-> "jenkins",       pattern |-> << <<"jenkins">>, <<"ci/cd">>, <<"pipeline">> >> ] >>

\* SreTaskParser.environmentPatterns, a Map iterated in insertion order
environmentPatterns == <<
    [env |-> "production",  pattern |-> << <<"prod">>, <<"production">>, <<"live">> >>],
    [env |-> "staging",     pattern |-> << <<"staging">>, <<"stage">>, <<"uat">> >>],
    [env |-> "development", pattern |-> << <<"dev">>, <<"development">>, <<"local">> >>],
    [env |-> "testing",     pattern |-> << <<"test">>, <<"testing">>, <<"qa">> >> ] >>

\* the patterns of extractUrgency, in the order of its if statements
HighUrgencyPattern   == << <<"urgent">>, <<"critical">>, <<"asap">>, <<"immediately">>, <<"high", "priority">> >>
MediumUrgencyPattern == << <<"soon">>, <<"medium", "priority">>, <<"moderate">> >>
LowUrgencyPattern    == << <<"low", "priority">>, <<"when", "possible">>, <<"eventually">> >>

\* the stopword pattern /^(the|and|for|with|using|on|in|at|to|from)$/i
Stopwords == {"the", "and", "for", "with", "using", "on", "in", "at", "to", "from"}

Digits == {"0", "1", "2", "3", "4", "5", "6", "7", "8", "9"}

LowerLetters == {UpperToLower[c] : c \in DOMAIN UpperToLower}

\* /version\s+([0-9.]+)|v([0-9.]+)/i
VersionProbes == << [lit |-> "version", ws |-> TRUE,  class |-> Digits \cup {"."}],
                    [lit |-> "v",       ws |-> FALSE, class |-> Digits \cup {"."}] >>

\* /port\s+([0-9]+)|:([0-9]+)/
PortProbes == << [lit |-> "port", ws |-> TRUE,  class |-> Digits],
                 [lit |-> ":",    ws |-> FALSE, class |-> Digits] >>

\* /namespace\s+([a-z0-9-]+)/i
NamespaceProbes == << [lit |-> "namespace", ws |-> TRUE,
                       class |-> LowerLetters \cup Digits \cup {"-"}] >>

\* extractTaskType with the implement test moved in front of the monitor test
extractTaskType_ImplementFirst(in) ==
    IF RegexTest(ImplementPattern, in) THEN "implement"
    ELSE IF RegexTest(MonitorPattern, in) THEN "monitor"
    ELSE IF RegexTest(ConfigurePattern, in) THEN "configure"
    ELSE IF RegexTest(DeployPattern, in) THEN "deploy"
    ELSE IF RegexTest(DocsPattern, in) THEN "docs"
    ELSE IF RegexTest(TroubleshootPattern, in) THEN "troubleshoot"
    ELSE "implement"

extractTaskType(in) ==
    IF RegexTest(MonitorPattern, in) THEN "monitor"
    ELSE IF RegexTest(ImplementPattern, in) THEN "implement"
    ELSE IF RegexTest(ConfigurePattern, in) THEN "configure"
    ELSE IF RegexTest(DeployPattern, in) THEN "deploy"
    ELSE IF RegexTest(DocsPattern, in) THEN "docs"
    ELSE IF RegexTest(TroubleshootPattern, in) THEN "troubleshoot"
    ELSE "implement"

\* the loop of extractTarget without its early return: the last match wins
RECURSIVE FirstTool_LastMatch(_, _)
FirstTool_LastMatch(in, k) ==
    IF k > Len(toolPatterns) THEN undefined
    ELSE LET later == FirstTool_LastMatch(in, k + 1)
         IN  IF later # undefined THEN later
             ELSE IF RegexTestI(toolPatterns[k].pattern, in) THEN Some(toolPatterns[k].tool)
             ELSE undefined

\* the for loop of extractTarget over toolPatterns, from entry k on:
\* the tool of the first entry whose pattern matches, undefined if none
RECURSIVE FirstTool(_, _)
FirstTool(in, k) ==
    IF k > Len(toolPatterns) THEN undefined
    ELSE IF RegexTestI(toolPatterns[k].pattern, in) THEN Some(toolPatterns[k].tool)
    ELSE FirstTool(in, k + 1)

\* the filter predicate of extractTarget without the stopword test
IsToolWord_NoStopwords(word) == Len(word) > 3

\* the filter predicate of extractTarget
IsToolWord(word) == Len(word) > 3 /\ toLowerCase(word) \notin Stopwords

\* words.filter(IsToolWord)
RECURSIVE FilterToolWords(_)
FilterToolWords(words) ==
    IF words = <<>> THEN <<>>
    ELSE (IF IsToolWord(Head(words)) THEN <<Head(words)>> ELSE <<>>)
             \o FilterToolWords(Tail(words))

\* extractTarget returning the first token as it is, without filter or default
extractTarget_NoDefault(in) ==
    LET tool == FirstTool(in, 1)
    IN  IF tool # undefined THEN tool[1] ELSE SplitWhitespace(in)[1]

extractTarget(in) ==
    LET tool == FirstTool(in, 1)
    IN  IF tool # undefined THEN tool[1]
        ELSE LET words     == SplitWhitespace(in)
                 toolWords == FilterToolWords(words)
             IN  IF toolWords # <<>> /\ toolWords[1] # "" THEN toolWords[1] ELSE "unknown"

\* a Map<string, string> is the sequence of its <<key, value>> entries in
\* insertion order
extractParameters(in) ==
    LET versionMatch   == MatchGroup(VersionProbes, in, TRUE)
        portMatch      == MatchGroup(PortProbes, in, FALSE)
        namespaceMatch == MatchGroup(NamespaceProbes, in, TRUE)
    IN  (IF versionMatch # undefined THEN << <<"version", versionMatch[1]>> >> ELSE <<>>)
        \o (IF portMatch # undefined THEN << <<"port", portMatch[1]>> >> ELSE <<>>)
        \o (IF namespaceMatch # undefined THEN << <<"namespace", namespaceMatch[1]>> >> ELSE <<>>)

\* the for loop of extractEnvironment over environmentPatterns, from entry k on
RECURSIVE FirstEnvironment(_, _)
FirstEnvironment(in, k) ==
    IF k > Len(environmentPatterns) THEN undefined
    ELSE IF RegexTestI(environmentPatterns[k].pattern, in) THEN Some(environmentPatterns[k].env)
    ELSE FirstEnvironment(in, k + 1)

extractEnvironment(in) == FirstEnvironment(in, 1)

\* extractUrgency with the medium test moved in front of the high test
extractUrgency_MediumFirst(in) ==
    IF RegexTest(MediumUrgencyPattern, in) THEN Some("medium")
    ELSE IF RegexTest(HighUrgencyPattern, in) THEN Some("high")
    ELSE IF RegexTest(LowUrgencyPattern, in) THEN Some("low")
    ELSE undefined

extractUrgency(in) ==
    IF RegexTest(HighUrgencyPattern, in) THEN Some("high")
    ELSE IF RegexTest(MediumUrgencyPattern, in) THEN Some("medium")
    ELSE IF RegexTest(LowUrgencyPattern, in) THEN Some("low")
    ELSE undefined

\* parseTask handing the input as typed, not lower-cased, to extractParameters
parseTask_RawParameters(in) ==
    LET lowerInput == toLowerCase(in)
    IN  [type        |-> extractTaskType(lowerInput),
         target      |-> extractTarget(lowerInput),
         parameters  |-> extractParameters(in),
         environment |-> extractEnvironment(lowerInput),
         urgency     |-> extractUrgency(lowerInput),
         rawInput    |-> in]

parseTask(in) ==
    LET lowerInput == toLowerCase(in)
    IN  [type        |-> extractTaskType(lowerInput),
         target      |-> extractTarget(lowerInput),
         parameters  |-> extractParameters(lowerInput),
         environment |-> extractEnvironment(lowerInput),
         urgency     |-> extractUrgency(lowerInput),
         rawInput    |-> in]

-----------------------------------------------------------------------------
(* SreTaskParser: the plan synthesizer *)

\* Map.prototype.get: the value of the entry with the key, undefined if none
RECURSIVE MapGet(_, _)
MapGet(map, key) ==
    IF map = <<>> THEN undefined
    ELSE IF Head(map)[1] = key THEN Some(Head(map)[2])
    ELSE MapGet(Tail(map), key)

\* the truthiness of an optional string: neither undefined nor empty
Truthy(opt) == opt # undefined /\ opt[1] # ""

generateTaskSummary(ctx) ==
    LET envStr == IF Truthy(ctx.environment) THEN " in " \o ctx.environment[1] ELSE ""
    IN  toUpperCase(SubSeq(ctx.type, 1, IF Len(ctx.type) > 0 THEN 1 ELSE 0))
            \o SubSeq(ctx.type, 2, Len(ctx.type)) \o " " \o ctx.target \o envStr

getDynatraceK8sExample(ctx) ==
    LET found     == MapGet(ctx.parameters, "namespace")
        namespace == IF Truthy(found) THEN found[1] ELSE "dynatrace"
    IN  "apiVersion: apps/v1\nkind: DaemonSet\nmetadata:\n  name: dynatrace-oneagent\n  namespace: "
            \o namespace
            \o "\nspec:\n  selector:\n    matchLabels:\n      name: dynatrace-oneagent\n  template:\n    metadata:\n      labels:\n        name: dynatrace-oneagent\n    spec:\n      containers:\n      - name: dynatrace-oneagent\n        image: dynatrace/oneagent\n        env:\n        - name: DT_TENANT\n          valueFrom:\n            secretKeyRef:\n              name: dynatrace-secret\n              key: tenant\n        - name: DT_API_TOKEN\n          valueFrom:\n            secretKeyRef:\n              name: dynatrace-secret\n              key: apiToken\n        - name: DT_CLUSTER_ID\n          value: \"production-cluster\"\n        securityContext:\n          privileged: true\n        volumeMounts:\n        - name: host-root\n          mountPath: /mnt/root\n      volumes:\n      - name: host-root\n        hostPath:\n          path: /\n      hostNetwork: true\n      hostPID: true\n      hostIPC: true"

generateDynatraceSteps(ctx) ==
    << [step |-> 1, title |-> "Retrieve Dynatrace Configuration",
        description |-> "Get tenant ID and API token from internal documentation",
        documentation |-> <<"Dynatrace Setup Guide", "Security Token Management">>],
       [step |-> 2, title |-> "Deploy OneAgent",
        description |-> "Install Dynatrace OneAgent as DaemonSet",
        codeExample |-> getDynatraceK8sExample(ctx),
        validationSteps |-> <<"Check pod status", "Verify agent connectivity">>],
       [step |-> 3, title |-> "Configure Monitoring Rules",
        description |-> "Set up application monitoring and alerting rules",
        validationSteps |-> <<"Test alert triggers", "Validate metrics collection">>] >>

generatePrometheusSteps(ctx) ==
    << [step |-> 1, title |-> "Deploy Prometheus Server",
        description |-> "Set up Prometheus server with persistent storage",
        codeExample |-> "kubectl apply -f prometheus-deployment.yaml"],
       [step |-> 2, title |-> "Configure Service Discovery",
        description |-> "Set up automatic service discovery for monitoring targets"],
       [step |-> 3, title |-> "Create Alerting Rules",
        description |-> "Define alerting rules for SRE metrics and SLIs"] >>

generateKubernetesSteps(ctx) ==
    << [step |-> 1, title |-> "Create Namespace",
        description |-> "Set up dedicated namespace for the application"],
       [step |-> 2, title |-> "Deploy Application",
        description |-> "Create deployment and service manifests"],
       [step |-> 3, title |-> "Configure Ingress",
        description |-> "Set up ingress controller and routing rules"] >>

generateGenericSteps(ctx) ==
    << [step |-> 1, title |-> "Research and Planning",
        description |-> "Research " \o ctx.target
                            \o " implementation requirements and best practices"],
       [step |-> 2, title |-> "Environment Preparation",
        description |-> "Prepare target environment and install dependencies"],
       [step |-> 3, title |-> "Implementation",
        description |-> "Deploy and configure " \o ctx.target],
       [step |-> 4, title |-> "Validation and Testing",
        description |-> "Validate implementation and run acceptance tests"] >>

\* generateSteps returning its unused empty local array for an unmatched target
generateSteps_Empty(ctx) ==
    CASE ctx.target = "dynatrace"  -> generateDynatraceSteps(ctx)
      [] ctx.target = "prometheus" -> generatePrometheusSteps(ctx)
      [] ctx.target = "kubernetes" -> generateKubernetesSteps(ctx)
      [] OTHER                     -> <<>>

generateSteps(ctx) ==
    CASE ctx.target = "dynatrace"  -> generateDynatraceSteps(ctx)
      [] ctx.target = "prometheus" -> generatePrometheusSteps(ctx)
      [] ctx.target = "kubernetes" -> generateKubernetesSteps(ctx)
      [] OTHER                     -> generateGenericSteps(ctx)

\* generatePrerequisites adding the production items whenever an environment is set
generatePrerequisites_AnyEnvironment(ctx) ==
    (IF ctx.target = "kubernetes" \/ RegexTest(<< <<"k8s">> >>, ctx.rawInput)
     THEN <<"Kubernetes cluster access", "kubectl configured">> ELSE <<>>)
    \o (IF ctx.environment # undefined
        THEN <<"Change management approval", "Backup verification">> ELSE <<>>)
    \o <<"Access to internal documentation", "Required permissions verified">>

generatePrerequisites(ctx) ==
    (IF ctx.target = "kubernetes" \/ RegexTest(<< <<"k8s">> >>, ctx.rawInput)
     THEN <<"Kubernetes cluster access", "kubectl configured">> ELSE <<>>)
    \o (IF ctx.environment = Some("production")
        THEN <<"Change management approval", "Backup verification">> ELSE <<>>)
    \o <<"Access to internal documentation", "Required permissions verified">>

\* the parameter test of assessComplexity met by two entries
assessComplexity_TwoParameters(ctx) ==
    IF ctx.target \in {"kubernetes", "prometheus", "elasticsearch"} THEN "high"
    ELSE IF Len(ctx.parameters) >= 2 THEN "medium"
    ELSE "low"

assessComplexity(ctx) ==
    IF ctx.target \in {"kubernetes", "prometheus", "elasticsearch"} THEN "high"
    ELSE IF Len(ctx.parameters) > 2 THEN "medium"
    ELSE "low"

estimateTime(ctx) ==
    LET complexity == assessComplexity(ctx)
    IN  CASE complexity = "low"    -> "1-2 hours"
          [] complexity = "medium" -> "4-8 hours"
          [] complexity = "high"   -> "1-2 days"
          [] OTHER                 -> "2-4 hours"

\* assessRisk raising the level for complex targets
assessRisk_TargetBased(ctx) ==
    IF ctx.environment = Some("production") THEN "high"
    ELSE IF ctx.urgency = Some("high") \/ ctx.target = "kubernetes" THEN "medium"
    ELSE "low"

assessRisk(ctx) ==
    IF ctx.environment = Some("production") THEN "high"
    ELSE IF ctx.urgency = Some("high") THEN "medium"
    ELSE "low"

\* the chat-surface formula following the urgency as the plan formula does
assessRiskChat_UrgencyAware(parsedTask) ==
    IF parsedTask.environment = Some("production") THEN "HIGH"
    ELSE IF parsedTask.urgency = Some("high") THEN "MEDIUM"
    ELSE "LOW"

\* SreBuddyChatParticipant.assessRisk: the level it computes; the icon it
\* puts in front of the level is left out
assessRiskChat(parsedTask) ==
    LET env    == IF parsedTask.environment = undefined THEN ""
                  ELSE toLowerCase(parsedTask.environment[1])
        target == toLowerCase(parsedTask.target)
        risk   == IF parsedTask.environment # undefined /\ Includes(env, "prod") THEN "HIGH"
                  ELSE IF parsedTask.environment # undefined /\ Includes(env, "staging")
                  THEN "MEDIUM"
                  ELSE "LOW"
    IN  IF Includes(target, "database") \/ Includes(target, "storage")
        THEN (IF risk = "LOW" THEN "MEDIUM" ELSE "HIGH")
        ELSE risk

generateRollbackSteps(ctx) ==
    <<"Stop new deployment", "Restore previous configuration",
      "Verify system stability", "Update monitoring dashboards">>

generateImplementationPlan(ctx) ==
    [taskSummary   |-> generateTaskSummary(ctx),
     steps         |-> generateSteps(ctx),
     prerequisites |-> generatePrerequisites(ctx),
     estimatedTime |-> estimateTime(ctx),
     riskLevel     |-> assessRisk(ctx),
     rollbackSteps |-> generateRollbackSteps(ctx)]

-----------------------------------------------------------------------------
(* SrePromptLoader: the template matcher.  A PromptTemplate is a record    *)
(* [command, examples, prompt, tags].  Scores are exact rationals          *)
(* <<numerator, denominator>> with a positive denominator.                 *)

RatAdd(a, b) == <<a[1] * b[2] + b[1] * a[2], a[2] * b[2]>>

RatGreater(a, b) == a[1] * b[2] > b[1] * a[2]

\* the similarity threshold 0.3 of findBestMatchingTemplate
Threshold == <<3, 10>>

\* the tag bonus 0.5 of calculateSimilarityScore
TagBonus == <<1, 2>>

\* String.prototype.split(/\\s+/) as the source spells the pattern: the
\* separator is a backslash followed by one or more letters s
RECURSIVE SplitBackslashS(_, _)
SplitBackslashS(s, i) ==
    LET seps == {j \in i..(Len(s) - 1) : SubSeq(s, j, j + 1) = "\\s"}
    IN  IF seps = {} THEN << SubSeq(s, i, Len(s)) >>
        ELSE LET j == CHOOSE x \in seps : \A y \in seps : x <= y
             IN  << SubSeq(s, i, j - 1) >> \o SplitBackslashS(s, RunEnd(s, j + 1, {"s"}))

\* the number of words of exampleWords[k..] that contain, or are contained
\* in, some word of taskWords
RECURSIVE MatchingWords(_, _, _)
MatchingWords(exampleWords, taskWords, k) ==
    IF k > Len(exampleWords) THEN 0
    ELSE (IF \E t \in 1..Len(taskWords) :
                \/ Includes(taskWords[t], exampleWords[k])
                \/ Includes(exampleWords[k], taskWords[t])
          THEN 1 ELSE 0) + MatchingWords(exampleWords, taskWords, k + 1)

\* the lengths added instead of compared
Max_Sum(a, b) == a + b

Max(a, b) == IF a >= b THEN a ELSE b

\* the first loop of calculateSimilarityScore from example k on: the sum of
\* the example scores
RECURSIVE ExampleScoreSum(_, _, _)
ExampleScoreSum(examples, taskText, k) ==
    IF k > Len(examples) THEN <<0, 1>>
    ELSE LET exampleWords == SplitBackslashS(toLowerCase(examples[k]), 1)
             taskWords    == SplitBackslashS(taskText, 1)
             exampleScore == << MatchingWords(exampleWords, taskWords, 1),
                                Max(Len(exampleWords), Len(taskWords)) >>
         IN  RatAdd(exampleScore, ExampleScoreSum(examples, taskText, k + 1))

\* the second loop of calculateSimilarityScore from tag k on: the sum of the
\* tag bonuses
RECURSIVE TagBonusSum(_, _, _)
TagBonusSum(tags, taskText, k) ==
    IF k > Len(tags) THEN <<0, 1>>
    ELSE RatAdd(IF Includes(taskText, toLowerCase(tags[k])) THEN TagBonus ELSE <<0, 1>>,
                TagBonusSum(tags, taskText, k + 1))

calculateSimilarityScore(taskContext, t) ==
    LET taskText   == toLowerCase(taskContext.rawInput \o " " \o taskContext.target)
        totalScore == RatAdd(ExampleScoreSum(t.examples, taskText, 1),
                             TagBonusSum(t.tags, taskText, 1))
        matchCount == Len(t.examples)
    IN  IF matchCount > 0 THEN <<totalScore[1], totalScore[2] * matchCount>> ELSE <<0, 1>>

\* the command filter of findBestMatchingTemplate left out
FilterCommand_All(ts, cmd) == ts

\* this.templates.filter(t => t.command === command)
RECURSIVE FilterCommand(_, _)
FilterCommand(ts, cmd) ==
    IF ts = <<>> THEN <<>>
    ELSE (IF Head(ts).command = cmd THEN <<Head(ts)>> ELSE <<>>)
             \o FilterCommand(Tail(ts), cmd)

\* the scoring loop of findBestMatchingTemplate from candidate k on, entered
\* with the best template and score so far
RECURSIVE BestFrom(_, _, _, _)
BestFrom(candidates, taskContext, k, best) ==
    IF k > Len(candidates) THEN best
    ELSE LET score == calculateSimilarityScore(taskContext, candidates[k])
         IN  BestFrom(candidates, taskContext, k + 1,
                      IF RatGreater(score, best.bestScore)
                      THEN [bestTemplate |-> Some(candidates[k]), bestScore |-> score]
                      ELSE best)

\* the threshold met instead of exceeded
findBestMatchingTemplate_AtLeast(ts, taskContext, cmd) ==
    LET commandTemplates == FilterCommand(ts, cmd)
    IN  IF Len(commandTemplates) = 0 THEN undefined
        ELSE LET best == BestFrom(commandTemplates, taskContext, 1,
                                  [bestTemplate |-> undefined, bestScore |-> <<0, 1>>])
             IN  IF ~RatGreater(Threshold, best.bestScore) THEN best.bestTemplate
                 ELSE undefined

findBestMatchingTemplate(ts, taskContext, cmd) ==
    LET commandTemplates == FilterCommand(ts, cmd)
    IN  IF Len(commandTemplates) = 0 THEN undefined
        ELSE LET best == BestFrom(commandTemplates, taskContext, 1,
                                  [bestTemplate |-> undefined, bestScore |-> <<0, 1>>])
             IN  IF RatGreater(best.bestScore, Threshold) THEN best.bestTemplate
                 ELSE undefined

-----------------------------------------------------------------------------
(* SrePromptLoader: the corpus parser.  Patterns and string literals are   *)
(* read as the source spells them: in /SRE (\\w+) Prompts?/ the group is a *)
(* backslash followed by one or more letters w, and '\\n' is a backslash   *)
(* followed by the letter n.                                               *)

\* String.prototype.trim
RECURSIVE trimEnd(_)
trimEnd(s) ==
    IF s # "" /\ SubSeq(s, Len(s), Len(s)) \in Whitespace
    THEN trimEnd(SubSeq(s, 1, Len(s) - 1))
    ELSE s

trim(s) == trimEnd(SubSeq(s, SkipWhitespace(s, 1), Len(s)))

\* String.prototype.startsWith
startsWith(s, w) == StartsAt(s, 1, w)

\* String.prototype.split(sep) from index i on, for a non-empty literal sep
RECURSIVE SplitLiteral(_, _, _)
SplitLiteral(s, sep, i) ==
    LET hits == {j \in i..(Len(s) - Len(sep) + 1) : StartsAt(s, j, sep)}
    IN  IF hits = {} THEN << SubSeq(s, i, Len(s)) >>
        ELSE LET j == CHOOSE h \in hits : \A g \in hits : h <= g
             IN  << SubSeq(s, i, j - 1) >> \o SplitLiteral(s, sep, j + Len(sep))

\* content.split(/^## /m) from index i on: the separator is "## " at the
\* start of a line
RECURSIVE SplitSections(_, _)
SplitSections(content, i) ==
    LET hits == {j \in i..(Len(content) - 2) :
                    /\ StartsAt(content, j, "## ")
                    /\ (j = 1 \/ SubSeq(content, j - 1, j - 1) = "\n")}
    IN  IF hits = {} THEN << SubSeq(content, i, Len(content)) >>
        ELSE LET j == CHOOSE h \in hits : \A g \in hits : h <= g
             IN  << SubSeq(content, i, j - 1) >> \o SplitSections(content, j + 3)

\* the three alternatives of the header pattern of parseTemplateSection,
\* folded for the i flag: the literal before the group (with its optional s
\* spelled out) and the literal after it
headerPattern ==
    << [before |-> {"sre "}, after |-> " prompt"],
       [before |-> {"prompt template for ", "prompt templates for "}, after |-> ""],
       [before |-> {"llm "}, after |-> " instruction"] >>

\* index at which the group (\\w+) of alternative a starts when a is tried
\* at index i of t, 0 when a does not match there
HeaderGroupStart(t, i, a) ==
    LET starts == {i + Len(b) : b \in {x \in a.before : StartsAt(t, i, x)}}
        good   == {j \in starts :
                      /\ StartsAt(t, j, "\\")
                      /\ RunEnd(t, j + 1, {"w"}) > j + 1
                      /\ StartsAt(t, RunEnd(t, j + 1, {"w"}), a.after)}
    IN  IF good = {} THEN 0 ELSE CHOOSE j \in good : TRUE

\* header.match(/SRE (\\w+) Prompts?|Prompt Templates? for (\\w+)|LLM (\\w+) Instructions?/i)
\* followed by  (m[1] || m[2] || m[3]).toLowerCase() : undefined when the
\* header does not match
HeaderCommand(header) ==
    LET t    == toLowerCase(header)
        hits == {i \in 1..Len(t) :
                    \E a \in 1..Len(headerPattern) : HeaderGroupStart(t, i, headerPattern[a]) # 0}
    IN  IF hits = {} THEN undefined
        ELSE LET i == CHOOSE h \in hits : \A g \in hits : h <= g
                 a == CHOOSE k \in 1..Len(headerPattern) :
                        /\ HeaderGroupStart(t, i, headerPattern[k]) # 0
                        /\ \A l \in 1..(k - 1) : HeaderGroupStart(t, i, headerPattern[l]) = 0
                 b == HeaderGroupStart(t, i, headerPattern[a])
             IN  Some(toLowerCase(SubSeq(header, b, RunEnd(t, b + 1, {"w"}) - 1)))

\* one turn of the line loop of parseTemplateSection: acc holds
\* currentSection, examples, prompt and tags
ParseLine(acc, rawLine) ==
    LET line == trim(rawLine)
    IN  IF startsWith(line, "### Examples") \/ startsWith(line, "**Examples")
        THEN [acc EXCEPT !.currentSection = "examples"]
        ELSE IF startsWith(line, "### Prompt") \/ startsWith(line, "**Prompt")
        THEN [acc EXCEPT !.currentSection = "prompt"]
        ELSE IF startsWith(line, "### Tags") \/ startsWith(line, "**Tags")
        THEN [acc EXCEPT !.currentSection = "tags"]
        ELSE IF acc.currentSection = "examples" /\ startsWith(line, "-")
        THEN [acc EXCEPT !.examples = Append(@, trim(SubSeq(line, 2, Len(line))))]
        ELSE IF acc.currentSection = "prompt" /\ line # ""
        THEN [acc EXCEPT !.prompt = @ \o line \o "\\n"]
        ELSE IF acc.currentSection = "tags" /\ startsWith(line, "-")
        THEN [acc EXCEPT !.tags = Append(@, trim(SubSeq(line, 2, Len(line))))]
        ELSE acc

\* the line loop of parseTemplateSection from line i on
RECURSIVE ParseLines(_, _, _)
ParseLines(lines, i, acc) ==
    IF i > Len(lines) THEN acc
    ELSE ParseLines(lines, i + 1, ParseLine(acc, lines[i]))

\* a section is kept whether or not it has examples
parseTemplateSection_NoExamplesNeeded(section) ==
    LET lines == SplitLiteral(section, "\n", 1)
        cmd   == HeaderCommand(trim(lines[1]))
        acc   == ParseLines(lines, 2, [currentSection |-> "", examples |-> <<>>,
                                       prompt |-> "", tags |-> <<>>])
    IN  IF cmd = undefined THEN undefined
        ELSE IF acc.prompt # ""
        THEN Some([command |-> cmd[1], examples |-> acc.examples,
                   prompt |-> trim(acc.prompt), tags |-> acc.tags])
        ELSE undefined

\* parseTemplateSection: <<template>> or undefined (null)
parseTemplateSection(section) ==
    LET lines == SplitLiteral(section, "\n", 1)
        cmd   == HeaderCommand(trim(lines[1]))
        acc   == ParseLines(lines, 2, [currentSection |-> "", examples |-> <<>>,
                                       prompt |-> "", tags |-> <<>>])
    IN  IF cmd = undefined THEN undefined
        ELSE IF Len(acc.examples) > 0 /\ acc.prompt # ""
        THEN Some([command |-> cmd[1], examples |-> acc.examples,
                   prompt |-> trim(acc.prompt), tags |-> acc.tags])
        ELSE undefined

\* the loop of parsePromptTemplates from section i on
RECURSIVE ParseSections(_, _)
ParseSections(sections, i) ==
    IF i > Len(sections) THEN <<>>
    ELSE (IF trim(sections[i]) = "" THEN <<>> ELSE parseTemplateSection(sections[i]))
             \o ParseSections(sections, i + 1)

parsePromptTemplates(content) == ParseSections(SplitSections(content, 1), 1)

-----------------------------------------------------------------------------
(* SrePromptLoader: the prompt composer *)

\* String.prototype.replace(pattern, replacement) for a literal pattern: the
\* first occurrence is replaced
ReplaceFirst(s, pattern, replacement) ==
    LET hits == {j \in 1..(Len(s) - Len(pattern) + 1) : StartsAt(s, j, pattern)}
    IN  IF hits = {} THEN s
        ELSE LET j == CHOOSE h \in hits : \A g \in hits : h <= g
             IN  SubSeq(s, 1, j - 1) \o replacement
                     \o SubSeq(s, j + Len(pattern), Len(s))

\* String.prototype.replace(/pattern/g, replacement) for a pattern that
\* matches one literal text: every occurrence from index i on is replaced
RECURSIVE ReplaceAll(_, _, _, _)
ReplaceAll(s, pattern, replacement, i) ==
    LET hits == {j \in i..(Len(s) - Len(pattern) + 1) : StartsAt(s, j, pattern)}
    IN  IF hits = {} THEN SubSeq(s, i, Len(s))
        ELSE LET j == CHOOSE h \in hits : \A g \in hits : h <= g
             IN  SubSeq(s, i, j - 1) \o replacement
                     \o ReplaceAll(s, pattern, replacement, j + Len(pattern))

\* value || fallback  for a string
OrDefault(value, fallback) == IF value # "" THEN value ELSE fallback

\* value || fallback  for an optional string
OptOrDefault(opt, fallback) == IF Truthy(opt) THEN opt[1] ELSE fallback

\* the forEach of buildPromptFromTemplate over the parameters from entry k on
RECURSIVE ContextLines(_, _)
ContextLines(parameters, k) ==
    IF k > Len(parameters) THEN ""
    ELSE "- " \o parameters[k][1] \o ": " \o parameters[k][2] \o "\\n"
             \o ContextLines(parameters, k + 1)

\* buildPromptFromTemplate.  The four patterns are spelled /\\{target\\}/g
\* and so on in the source: each matches a backslash, the opening brace,
\* the name, a backslash and the closing brace.
buildPromptFromTemplate(t, taskContext) ==
    LET p1 == ReplaceAll(t.prompt, "\\{target\\}",
                         OrDefault(taskContext.target, "infrastructure component"), 1)
        p2 == ReplaceAll(p1, "\\{environment\\}",
                         OptOrDefault(taskContext.environment, "unspecified"), 1)
        p3 == ReplaceAll(p2, "\\{rawInput\\}", taskContext.rawInput, 1)
        p4 == ReplaceAll(p3, "\\{type\\}", taskContext.type, 1)
    IN  IF Len(taskContext.parameters) > 0
        THEN p4 \o "\\nAdditional Context:\\n" \o ContextLines(taskContext.parameters, 1)
        ELSE p4

\* buildPromptFromFallback: three replacements of a first occurrence
buildPromptFromFallback(fallbackPrompt, taskContext) ==
    ReplaceFirst(
        ReplaceFirst(
            ReplaceFirst(fallbackPrompt, "{target}",
                         OrDefault(taskContext.target, "infrastructure component")),
            "{environment}", OptOrDefault(taskContext.environment, "unspecified")),
        "{rawInput}", taskContext.rawInput)

buildGenericPrompt(taskContext, cmd) ==
    "You are SreBuddy, an expert Site Reliability Engineer assistant.\n\nTask: " \o cmd \o " "
        \o OrDefault(taskContext.target, "infrastructure component")
        \o "\nEnvironment: " \o OptOrDefault(taskContext.environment, "unspecified")
        \o "\nContext: " \o taskContext.rawInput \o
        "\n" \o
        "\n" \o
        "Please provide comprehensive SRE guidance that includes:\n" \o
        "1. **Step-by-step instructions** with clear actions\n" \o
        "2. **Best practices** for production environments\n" \o
        "3. **Code examples** with proper syntax highlighting\n" \o
        "4. **Validation steps** to ensure success\n" \o
        "5. **Rollback procedures** for safety\n" \o
        "6. **Monitoring considerations** for observability\n" \o
        "\n" \o
        "Focus on practical, battle-tested solutions that follow SRE principles."

\* this.fallbackPrompts after initializeFallbackPrompts, a Map of body per command
fallbackPrompts ==
    <<
       << "implement",
        "You are SreBuddy, an expert Site Reliability Engineer assistant. \n" \o
        "\n" \o
        "Task: Implement {target}\n" \o
        "Environment: {environment}\n" \o
        "Context: {rawInput}\n" \o
        "\n" \o
        "Provide a comprehensive implementation guide with:\n" \o
        "1. **Prerequisites** - All requirements and dependencies\n" \o
        "2. **Step-by-step Implementation** - Detailed instructions\n" \o
        "3. **Configuration Examples** - Complete configs with syntax highlighting\n" \o
        "4. **Validation Steps** - How to verify success\n" \o
        "5. **Monitoring Setup** - Basic observability\n" \o
        "6. **Rollback Plan** - Safe reversion procedures\n" \o
        "7. **Security Considerations** - Best practices\n" \o
        "8. **Troubleshooting** - Common issues and solutions\n" \o
        "\n" \o
        "Format with clear markdown, realistic estimates, and production-ready examples." >>,
       << "deploy",
        "You are SreBuddy, an expert Site Reliability Engineer assistant specializing in deployments.\n" \o
        "\n" \o
        "Task: Deploy {target}\n" \o
        "Environment: {environment}\n" \o
        "Context: {rawInput}\n" \o
        "\n" \o
        "Create a production-ready deployment plan with:\n" \o
        "1. **Deployment Strategy** - Blue/green, rolling, canary\n" \o
        "2. **Pre-deployment Checklist** - Required verifications\n" \o
        "3. **Infrastructure Requirements** - Resources and networking\n" \o
        "4. **Deployment Scripts** - Complete automation\n" \o
        "5. **Health Checks** - Readiness and liveness probes\n" \o
        "6. **Monitoring & Observability** - Metrics and alerting\n" \o
        "7. **Rollback Procedures** - Automated recovery\n" \o
        "8. **Post-deployment Validation** - Testing steps\n" \o
        "\n" \o
        "Include Kubernetes, CI/CD, and IaC examples where applicable." >>,
       << "monitor",
        "You are SreBuddy, an expert Site Reliability Engineer assistant specializing in monitoring.\n" \o
        "\n" \o
        "Task: Set up monitoring for {target}\n" \o
        "Context: {rawInput}\n" \o
        "\n" \o
        "Create a comprehensive monitoring strategy with:\n" \o
        "1. **Monitoring Architecture** - Components and data flow\n" \o
        "2. **Key Metrics** - SLIs to track\n" \o
        "3. **Alerting Rules** - SLOs and notification strategy\n" \o
        "4. **Dashboards** - Visual monitoring layouts\n" \o
        "5. **Log Aggregation** - Centralized logging\n" \o
        "6. **Configuration Files** - Complete monitoring configs\n" \o
        "7. **Integration Setup** - Connecting to existing systems\n" \o
        "8. **Maintenance** - Regular tasks and updates\n" \o
        "\n" \o
        "Include Prometheus, Grafana, and AlertManager configurations." >>,
       << "configure",
        "You are SreBuddy, an expert Site Reliability Engineer assistant specializing in configuration management.\n" \o
        "\n" \o
        "Task: Configure {target}\n" \o
        "Environment: {environment}\n" \o
        "Context: {rawInput}\n" \o
        "\n" \o
        "Generate production-ready configuration with:\n" \o
        "1. **Base Configuration** - Core settings\n" \o
        "2. **Environment-Specific Settings** - Dev/staging/prod variations\n" \o
        "3. **Security Configuration** - Authentication and encryption\n" \o
        "4. **Performance Tuning** - Optimization settings\n" \o
        "5. **Integration Points** - Service connections\n" \o
        "6. **Backup & Recovery** - Data protection\n" \o
        "7. **Monitoring Integration** - Health checks\n" \o
        "8. **Deployment Instructions** - Application steps\n" \o
        "\n" \o
        "Provide complete configs with comments and validation commands." >>,
       << "troubleshoot",
        "You are SreBuddy, an expert Site Reliability Engineer assistant specializing in incident response.\n" \o
        "\n" \o
        "Issue: {rawInput}\n" \o
        "\n" \o
        "Provide a structured troubleshooting guide with:\n" \o
        "1. **Initial Assessment** - Quick triage steps\n" \o
        "2. **Data Collection** - Logs, metrics, and diagnostics\n" \o
        "3. **Root Cause Analysis** - Investigation approach\n" \o
        "4. **Common Causes** - Most likely issues\n" \o
        "5. **Resolution Steps** - Fix procedures\n" \o
        "6. **Verification** - Confirming resolution\n" \o
        "7. **Prevention** - Avoiding recurrence\n" \o
        "8. **Escalation** - When and how to escalate\n" \o
        "\n" \o
        "Include specific commands, log patterns, and runbook references." >>
    >>

\* loadPromptTemplates: the templates the loader holds afterwards, ts being
\* the ones it held before.  A file that does not exist and a read that
\* throws both leave this.templates as it was.
loadPromptTemplates(f, ts) ==
    IF ~f.exists THEN ts
    ELSE IF ~f.readable THEN ts
    ELSE parsePromptTemplates(f.content)

\* the fallback body consulted before the matched template
composePrompt_FallbackFirst(ts, taskContext, cmd, thrown) ==
    LET t              == findBestMatchingTemplate(ts, taskContext, cmd)
        fallbackPrompt == MapGet(fallbackPrompts, cmd)
    IN  IF Truthy(fallbackPrompt)
        THEN buildPromptFromFallback(fallbackPrompt[1], taskContext)
        ELSE IF t # undefined THEN buildPromptFromTemplate(t[1], taskContext)
        ELSE buildGenericPrompt(taskContext, cmd)

\* the catch clause left out: a step that throws goes unnoticed
composePrompt_NoCatch(ts, taskContext, cmd, thrown) ==
    LET t              == findBestMatchingTemplate(ts, taskContext, cmd)
        fallbackPrompt == MapGet(fallbackPrompts, cmd)
    IN  IF t # undefined THEN buildPromptFromTemplate(t[1], taskContext)
        ELSE IF Truthy(fallbackPrompt)
        THEN buildPromptFromFallback(fallbackPrompt[1], taskContext)
        ELSE buildGenericPrompt(taskContext, cmd)

\* the try block and the catch clause of getPromptForTask after the load:
\* ts are the templates held, thrown names the step that throws ("none",
\* "match" for findBestMatchingTemplate, "substitution" for
\* buildPromptFromTemplate or buildPromptFromFallback)
composePrompt(ts, taskContext, cmd, thrown) ==
    LET t              == findBestMatchingTemplate(ts, taskContext, cmd)
        fallbackPrompt == MapGet(fallbackPrompts, cmd)
    IN  IF thrown = "match" THEN buildGenericPrompt(taskContext, cmd)
        ELSE IF t # undefined
        THEN IF thrown = "substitution" THEN buildGenericPrompt(taskContext, cmd)
             ELSE buildPromptFromTemplate(t[1], taskContext)
        ELSE IF Truthy(fallbackPrompt)
        THEN IF thrown = "substitution" THEN buildGenericPrompt(taskContext, cmd)
             ELSE buildPromptFromFallback(fallbackPrompt[1], taskContext)
        ELSE buildGenericPrompt(taskContext, cmd)

-----------------------------------------------------------------------------
(* The requests the callers hand to parseTask *)

\* the pieces request strings are built from: keywords of every category,
\* tool, environment and urgency pattern in both letter cases, parameter
\* phrases, stopwords, short and long free words, and whitespace
Vocabulary ==
    { "install ", "Dashboard", "set \tup ", "Deploy ", "help", "fix",
      "DT  agent", "Kubernetes ", "prometheus ", "cache ",
      "Production", "stage to live ", "dev ", "qa ",
      "eventually, ASAP", "soon ",
      "Namespace my-ns ", "V2", ":8080 ",
      "the for and ", "with ", "xyzzy", "Server ", " ", "\n" }

\* the concatenations of at most n pieces
RECURSIVE Concatenations(_)
Concatenations(n) ==
    IF n = 0 THEN {""}
    ELSE LET shorter == Concatenations(n - 1)
         IN  shorter \cup {s \o piece : s \in shorter, piece \in Vocabulary}

Inputs == Concatenations(MaxPieces)

NoContext == [type |-> "", target |-> "", parameters |-> <<>>,
              environment |-> undefined, urgency |-> undefined, rawInput |-> ""]

NoPlan == <<>>

\* the descriptors handed to generateImplementationPlan directly
Descriptors ==
    [type        : SreTaskType,
     target      : {"dynatrace", "prometheus", "kubernetes", "elasticsearch",
                    "redis", "xyzzy", "unknown"},
     parameters  : { <<>>,
                     << <<"namespace", "my-ns">> >>,
                     << <<"version", "1.2">>, <<"port", "80">> >>,
                     << <<"version", "2">>, <<"port", "8080">>, <<"namespace", "ops">> >> },
     environment : {undefined, Some("production"), Some("staging"),
                    Some("development"), Some("testing")},
     urgency     : {undefined, Some("high"), Some("medium"), Some("low")},
     rawInput    : {"", "setup k8s", "Setup K8S urgent"}]

\* the templates the template sets are built from
TemplatePool ==
    { [command |-> "implement", examples |-> <<"Implement Dynatrace">>,
       prompt |-> "Implement {target} in {environment}: {rawInput} ({type})",
       tags |-> <<"dynatrace">>],
      [command |-> "implement", examples |-> <<"install nginx", "implement dynatrace", "zzz", "yyy">>,
       prompt |-> "Install {target}", tags |-> <<>>],
      [command |-> "implement", examples |-> <<"implement\\sdynatrace\\sszz", "monitor grafana">>,
       prompt |-> "Guide for {target}", tags |-> <<"K8s">>],
      [command |-> "deploy", examples |-> <<"implement dynatrace">>,
       prompt |-> "Deploy {target}", tags |-> <<"dynatrace", "implement">>],
      [command |-> "deploy", examples |-> <<"deploy\\sk8s">>,
       prompt |-> "Roll out {target}", tags |-> <<"k8s">>],
      [command |-> "\\w", examples |-> <<"implement dynatrace", "deploy k8s">>,
       prompt |-> "{rawInput}", tags |-> <<>>],
      [command |-> "implement", examples |-> <<"implement dynatrace dynatrace">>,
       prompt |-> "Exact {target}", tags |-> <<>>],
      [command |-> "implement", examples |-> <<"implement\\sfoo">>,
       prompt |-> "Half {target}", tags |-> <<"dynatrace">>],
      [command |-> "monitor", examples |-> <<"q1", "q2", "q3", "q4", "q5">>,
       prompt |-> "Watch {target}", tags |-> <<"monitor", "grafana", "graf">>] }

\* number of templates in SrePromptLoader.templates
MaxTemplates == 2

\* the sequences of at most n templates of the pool
RECURSIVE TemplateSequences(_)
TemplateSequences(n) ==
    IF n = 0 THEN {<<>>}
    ELSE LET shorter == TemplateSequences(n - 1)
         IN  shorter \cup {Append(ts, t) : ts \in shorter, t \in TemplatePool}

\* the commands the chat handlers request a prompt for
Commands == {"implement", "deploy", "monitor", "\\w"}

\* the requests the matcher is exercised with
MatchInputs == {"implement dynatrace", "Deploy K8s", "monitor grafana", ""}

\* the file at instructionsPath: whether fs.existsSync finds it, whether
\* fs.readFileSync returns, and what it returns
NoFile == [exists |-> FALSE, readable |-> FALSE, content |-> ""]

UnreadableFile == [exists |-> TRUE, readable |-> FALSE, content |-> ""]

ReadableFile(content) == [exists |-> TRUE, readable |-> TRUE, content |-> content]

\* the first section of the bundled corpus, shortened
BundledSection ==
    "## SRE Implement Prompts\n\n### Examples\n\n- implement dynatrace agent\n\n"
        \o "### Prompt\n\nTask: Implement {{target}}\n\n### Tags\n\n- implementation\n\n"

\* a section whose header carries a backslash and the letter w
EscapedSection ==
    "## SRE \\w Prompts\n### Examples\n- implement dynatrace\n### Prompt\n"
        \o "Do {target} in {environment}:\n  {rawInput} ({type})\n### Tags\n- dynatrace\n"

\* the sections the corpora are built from
CorpusSections ==
    { BundledSection,
      EscapedSection,
      "## Prompt Templates for \\WW\n**Examples**\n- Monitor Grafana\n**Prompt**\nWatch \\{target\\}\n",
      "## LLM \\w Instructions\n### Prompt\nno examples\n",
      "## LLM \\www Instruction\n### Examples\n- only examples\n### Tags\n- k8s\n",
      "## LLM Deploy Instructions\n### Examples\n- deploy k8s\n### Prompt\nDeploy {target}\n",
      "## Notes\nfree text\n" }

\* the text in front of the first section
Preambles == {"", "# SRE Prompt Templates for SreBuddy\n\nintro\n"}

\* number of sections of a corpus
MaxSections == 3

\* number of templates a loader without a corpus file holds
MaxHeld == 1

\* the concatenations of at most n sections
RECURSIVE SectionRuns(_)
SectionRuns(n) ==
    IF n = 0 THEN {""}
    ELSE LET shorter == SectionRuns(n - 1)
         IN  shorter \cup {c \o x : c \in shorter, x \in CorpusSections}

Corpora == {p \o c : p \in Preambles, c \in SectionRuns(MaxSections)}

\* the files a prompt request finds at instructionsPath
Files ==
    { NoFile, UnreadableFile,
      ReadableFile(BundledSection),
      ReadableFile(EscapedSection),
      ReadableFile("## SRE \\w Prompts\n### Examples\n- dynatrace\n### Prompt\nRoll out \\{target\\} to \\{environment\\}: \\{rawInput\\} (\\{type\\})\n") }

\* the requests a prompt is composed for
PromptInputs == {"implement dynatrace", "Implement Dynatrace v2 on port 80 in prod",
                 "{environment} setup"}

\* the commands a prompt is requested for
PromptCommands == {"implement", "troubleshoot", "docs", "\\w"}

\* the steps of getPromptForTask's try block that can throw
Faults == {"match", "substitution"}

-----------------------------------------------------------------------------
(* JSON values and the user's settings file *)

\* what reading a property that is not there yields
JsonUndefined == [kind |-> "undefined"]

JsonNull == [kind |-> "null"]

JsonString(s) == [kind |-> "string", value |-> s]

\* an object: its properties in insertion order, each <<key, value>>
JsonObject(entries) == [kind |-> "object", entries |-> entries]

\* JavaScript truthiness of a value read from the settings
JsonTruthy(v) == v.kind = "object" \/ (v.kind = "string" /\ v.value # "")

RECURSIVE GetFrom(_, _, _)
GetFrom(entries, key, i) ==
    IF i > Len(entries) THEN JsonUndefined
    ELSE IF entries[i][1] = key THEN entries[i][2]
    ELSE GetFrom(entries, key, i + 1)

\* o[key]; a string has no property of these names
Get(o, key) == IF o.kind = "object" THEN GetFrom(o.entries, key, 1) ELSE JsonUndefined

HasKey(o, key) == o.kind = "object" /\ \E i \in 1..Len(o.entries) : o.entries[i][1] = key

\* o[key] = value on an object: a property keeps its place, a new one is last
Set(o, key, value) ==
    IF HasKey(o, key)
    THEN JsonObject([i \in 1..Len(o.entries) |->
             IF o.entries[i][1] = key THEN <<key, value>> ELSE o.entries[i]])
    ELSE JsonObject(Append(o.entries, <<key, value>>))

\* a file of settings: strict says whether JSON.parse accepts its text (a
\* file with comments or trailing commas is read by the editor, not by
\* JSON.parse), indent is the indentation of its text, value what it holds
SettingsFile(strict, indent, value) ==
    [exists |-> TRUE, strict |-> strict, indent |-> indent, value |-> value]

NoSettingsFile == [exists |-> FALSE, strict |-> FALSE, indent |-> 0, value |-> JsonUndefined]

\* JSON.stringify(settings, null, 2) written to the file
Stringify(value) == SettingsFile(TRUE, 2, value)

ServerConfig(cmd, args) ==
    JsonObject(<<
        <<"command", JsonString(cmd)>>,
        <<"args", JsonObject([i \in 1..Len(args) |-> <<ToString(i - 1), JsonString(args[i])>>])>> >>)

defaultMcpServers ==
    <<
        <<"srebuddy-sqlite", ServerConfig("npx", <<"@modelcontextprotocol/server-sqlite">>)>>
    >>

\* the loop over Object.entries(defaultMcpServers)
RECURSIVE AddMissingServers(_, _, _, _)
AddMissingServers(servers, defaults, i, addedCount) ==
    IF i > Len(defaults) THEN [servers |-> servers, addedCount |-> addedCount]
    ELSE IF ~JsonTruthy(Get(servers, defaults[i][1]))
         THEN AddMissingServers(Set(servers, defaults[i][1], defaults[i][2]),
                                defaults, i + 1, addedCount + 1)
         ELSE AddMissingServers(servers, defaults, i + 1, addedCount)

\* installMcpServersToVSCode on the settings file f: the file it leaves and
\* the result it returns
installMcpServersToVSCode(f) ==
    LET created  == IF f.exists THEN f ELSE SettingsFile(TRUE, 0, JsonObject(<<>>))
        \* JSON.parse, an invalid text caught and replaced by {}
        settings == IF created.strict THEN created.value ELSE JsonObject(<<>>)
        failed   == [file |-> created, result |-> [success |-> FALSE, addedCount |-> 0]]
    IN  IF settings.kind # "object" THEN failed           \* TypeError, caught
        ELSE
        LET withMcp == IF ~JsonTruthy(Get(settings, "mcp"))
                       THEN Set(settings, "mcp", JsonObject(<<>>)) ELSE settings
            mcp     == Get(withMcp, "mcp")
        IN  IF mcp.kind # "object" THEN failed            \* TypeError, caught
            ELSE
            LET withServers == IF ~JsonTruthy(Get(mcp, "servers"))
                               THEN Set(mcp, "servers", JsonObject(<<>>)) ELSE mcp
                servers     == Get(withServers, "servers")
            IN  IF servers.kind # "object" THEN failed    \* TypeError, caught
                ELSE
                LET added == AddMissingServers(servers, defaultMcpServers, 1, 0)
                IN  [file   |-> Stringify(Set(withMcp, "mcp",
                                    Set(withServers, "servers", added.servers))),
                     result |-> [success |-> TRUE, addedCount |-> added.addedCount]]

\* checkExistingMcpServers().hasServers on the settings file f
checkExistingMcpServers(f) ==
    IF ~f.exists THEN FALSE
    ELSE IF ~f.strict THEN FALSE                           \* SyntaxError, caught
    ELSE IF f.value.kind \notin {"object", "string"} THEN FALSE   \* TypeError, caught
    ELSE LET mcp        == Get(f.value, "mcp")
             read       == IF mcp.kind \in {"undefined", "null"} THEN JsonUndefined
                           ELSE Get(mcp, "servers")
             mcpServers == IF JsonTruthy(read) THEN read ELSE JsonObject(<<>>)
         IN  \E i \in 1..Len(defaultMcpServers) :
                 JsonTruthy(Get(mcpServers, defaultMcpServers[i][1]))

-----------------------------------------------------------------------------
(* The extension host at rest *)

\* number of activations sharing one global state
MaxActivations == 2

\* number of setupWorkspaceFolder calls in flight at one time
MaxInvocations == 2

\* no activate() call has run
NoActivation == [pc |-> "inactive", number |-> 0, welcome |-> FALSE, prompt |-> FALSE]

\* a workspace without folders
NoWorkspace == [folders |-> 0, targetFile |-> "absent", sourceFile |-> TRUE]

NoInvocations == [i \in 1..MaxInvocations |-> "none"]

\* no chat request is being handled
NoChat ==
    [pc |-> "idle", command |-> "", prompt |-> "", cancelled |-> FALSE,
     parsedTask |-> NoContext, stream |-> <<>>, query |-> 0, mcpDocumentation |-> "",
     enhancedPrompt |-> undefined, requests |-> 0]

\* the host state of a fresh installation in which nothing runs
HostIdle ==
    /\ globalState = [hasShownWelcome |-> FALSE, hasInstalledMcp |-> FALSE]
    /\ settingsFile = NoSettingsFile
    /\ result = undefined
    /\ activation = NoActivation
    /\ messages = <<>>
    /\ workspace = NoWorkspace
    /\ invocations = NoInvocations
    /\ chat = NoChat

-----------------------------------------------------------------------------
(* The state machine *)

\* a caller holds a request string
Init ==
    /\ pc = "start"
    /\ input \in Inputs
    /\ context = NoContext
    /\ plan = NoPlan
    /\ templates = <<>>
    /\ command = ""
    /\ template = undefined
    /\ file = NoFile
    /\ prompt = ""
    /\ fault = "none"
    /\ HostIdle

\* a caller holds a descriptor
InitPlan ==
    /\ pc = "parsed"
    /\ context \in Descriptors
    /\ input = context.rawInput
    /\ plan = NoPlan
    /\ templates = <<>>
    /\ command = ""
    /\ template = undefined
    /\ file = NoFile
    /\ prompt = ""
    /\ fault = "none"
    /\ HostIdle

\* a caller holds a parsed request and a command, the loader a template set
InitMatch ==
    /\ pc = "parsed"
    /\ input \in MatchInputs
    /\ context = parseTask(input)
    /\ plan = NoPlan
    /\ templates \in TemplateSequences(MaxTemplates)
    /\ command \in Commands
    /\ template = undefined
    /\ file = NoFile
    /\ prompt = ""
    /\ fault = "none"
    /\ HostIdle

\* SreTaskParser.parseTask
ParseTask ==
    /\ pc = "start"
    /\ context' = parseTask(input)
    /\ pc' = "parsed"
    /\ UNCHANGED <<input, plan, templates, command, template, file, prompt, fault>>
    /\ UNCHANGED hostVars

\* SreTaskParser.generateImplementationPlan
GenerateImplementationPlan ==
    /\ pc = "parsed"
    /\ plan' = generateImplementationPlan(context)
    /\ pc' = "planned"
    /\ UNCHANGED <<input, context, templates, command, template, file, prompt, fault>>
    /\ UNCHANGED hostVars

\* SrePromptLoader.findBestMatchingTemplate
FindBestMatchingTemplate ==
    /\ pc = "parsed"
    /\ template' = findBestMatchingTemplate(templates, context, command)
    /\ pc' = "matched"
    /\ UNCHANGED <<input, context, plan, templates, command, file, prompt, fault>>
    /\ UNCHANGED hostVars

\* the loader is handed a corpus file
InitCorpus ==
    /\ pc = "file"
    /\ input = ""
    /\ context = NoContext
    /\ plan = NoPlan
    /\ templates = <<>>
    /\ command = ""
    /\ template = undefined
    /\ file \in {ReadableFile(c) : c \in Corpora}
    /\ prompt = ""
    /\ fault = "none"
    /\ HostIdle

\* SrePromptLoader after its constructor, which loads the templates once
InitPrompt ==
    /\ pc = "idle"
    /\ input = ""
    /\ context = NoContext
    /\ plan = NoPlan
    /\ file \in Files
    /\ templates = loadPromptTemplates(file, <<>>)
    /\ command = ""
    /\ template = undefined
    /\ prompt = ""
    /\ fault = "none"
    /\ HostIdle

\* SrePromptLoader holding any template set, no file at instructionsPath
InitCompose ==
    /\ pc = "idle"
    /\ input = ""
    /\ context = NoContext
    /\ plan = NoPlan
    /\ file = NoFile
    /\ templates \in TemplateSequences(MaxHeld)
    /\ command = ""
    /\ template = undefined
    /\ prompt = ""
    /\ fault = "none"
    /\ HostIdle

\* SrePromptLoader.loadPromptTemplates
LoadPromptTemplates ==
    /\ pc = "file"
    /\ templates' = loadPromptTemplates(file, templates)
    /\ pc' = "loaded"
    /\ UNCHANGED <<input, context, plan, command, template, file, prompt, fault>>
    /\ UNCHANGED hostVars

\* the file at instructionsPath is written, removed or locked
WriteInstructions ==
    /\ pc \in {"idle", "composed"}
    /\ \E f \in Files : f # file /\ file' = f
    /\ pc' = "idle"
    /\ UNCHANGED <<input, context, plan, templates, command, template, prompt, fault>>
    /\ UNCHANGED hostVars

\* SrePromptLoader.getPromptForTask for a parsed request and a command, the
\* step named by thrown throwing
GetPromptForTaskThrowing(in, cmd, thrown) ==
    /\ pc \in {"idle", "composed"}
    /\ input' = in
    /\ context' = parseTask(in)
    /\ command' = cmd
    /\ templates' = loadPromptTemplates(file, templates)
    /\ template' = IF thrown = "match" THEN undefined
                   ELSE findBestMatchingTemplate(templates', context', cmd)
    /\ prompt' = composePrompt(templates', context', cmd, thrown)
    /\ fault' = thrown
    /\ pc' = "composed"
    /\ UNCHANGED <<plan, file>>
    /\ UNCHANGED hostVars

\* SrePromptLoader.getPromptForTask, no step throwing
GetPromptForTask ==
    \E in \in PromptInputs, cmd \in PromptCommands :
        GetPromptForTaskThrowing(in, cmd, "none")

\* SrePromptLoader.getPromptForTask, a step of the try block throwing
GetPromptForTaskFault ==
    \E in \in PromptInputs, cmd \in PromptCommands, thrown \in Faults :
        GetPromptForTaskThrowing(in, cmd, thrown)

Next == ParseTask \/ GenerateImplementationPlan

NextPlan == GenerateImplementationPlan

NextMatch == FindBestMatchingTemplate

NextCorpus == LoadPromptTemplates

NextPrompt == WriteInstructions \/ GetPromptForTask

NextCompose == GetPromptForTask

NextFault == WriteInstructions \/ GetPromptForTask \/ GetPromptForTaskFault

\* request string -> parseTask -> generateImplementationPlan
Spec == Init /\ [][Next]_vars

\* any descriptor -> generateImplementationPlan
SpecPlan == InitPlan /\ [][NextPlan]_vars

\* any template set, parsed request and command -> findBestMatchingTemplate
SpecMatch == InitMatch /\ [][NextMatch]_vars

\* any corpus file -> loadPromptTemplates
SpecCorpus == InitCorpus /\ [][NextCorpus]_vars

\* prompt requests and changes of the corpus file, in any order
SpecPrompt == InitPrompt /\ [][NextPrompt]_vars

\* prompt requests to a loader that holds any template set
SpecCompose == InitCompose /\ [][NextCompose]_vars

\* prompt requests, some with a step that throws, and changes of the file
SpecFault == InitPrompt /\ [][NextFault]_vars

-----------------------------------------------------------------------------
(* Settings files handed to the installer *)

\* the files the installer may find: none, or a file that JSON.parse accepts
\* or rejects, holding the JSON null or an object with entries of the user
\* (userEntries) and, under mcp, null, a string, or an object whose servers
\* are null or a map that holds under the default name the default server,
\* a server of the user or null, and a server of the user under another name
SettingsFiles ==
    LET userEntries ==
            {<<>>,
             << <<"editor.fontSize", JsonString("14")>> >>,
             << <<"files.autoSave", JsonString("afterDelay")>> >>,
             << <<"editor.fontSize", JsonString("14")>>,
                <<"files.autoSave", JsonString("afterDelay")>> >>}
        ownServerValues ==
            {ServerConfig("npx", <<"@modelcontextprotocol/server-sqlite">>),
             ServerConfig("node", <<"my-sqlite.js">>),
             JsonNull}
        otherServer == <<"github", ServerConfig("docker", <<"run", "ghcr.io/github/mcp">>)>>
        own == {<<>>} \cup {<< <<"srebuddy-sqlite", v>> >> : v \in ownServerValues}
        serverMaps == {JsonObject(o \o rest) : o \in own, rest \in {<<>>, <<otherServer>>}}
        mcpValues ==
            {JsonNull, JsonString("off")}
            \cup {JsonObject(inputs \o servers) :
                    inputs \in {<<>>, << <<"inputs", JsonString("token")>> >>},
                    servers \in {<<>>, << <<"servers", JsonNull>> >>}
                                \cup {<< <<"servers", m>> >> : m \in serverMaps}}
        settingsValues ==
            {JsonNull}
            \cup {JsonObject(e) : e \in userEntries}
            \cup {JsonObject(e \o << <<"mcp", m>> >>) : e \in userEntries, m \in mcpValues}
    IN  {NoSettingsFile}
        \cup {SettingsFile(strict, indent, v) :
                strict \in BOOLEAN, indent \in {2, 4}, v \in settingsValues}

-----------------------------------------------------------------------------
(* The installer *)

\* the request pipeline at rest
CoreIdle ==
    /\ pc = "host"
    /\ input = ""
    /\ context = NoContext
    /\ plan = NoPlan
    /\ templates = <<>>
    /\ command = ""
    /\ template = undefined
    /\ file = NoFile
    /\ prompt = ""
    /\ fault = "none"

\* the user's settings file holds any content
InitInstall ==
    /\ CoreIdle
    /\ globalState = [hasShownWelcome |-> FALSE, hasInstalledMcp |-> FALSE]
    /\ settingsFile \in SettingsFiles
    /\ result = undefined
    /\ activation = NoActivation
    /\ messages = <<>>
    /\ workspace = NoWorkspace
    /\ invocations = NoInvocations
    /\ chat = NoChat

\* installMcpServersToVSCode
InstallMcpServersToVSCode ==
    /\ settingsFile' = installMcpServersToVSCode(settingsFile).file
    /\ result' = Some(installMcpServersToVSCode(settingsFile).result)
    /\ UNCHANGED <<globalState, activation, messages, workspace, invocations, chat>>
    /\ UNCHANGED coreVars

NextInstall == InstallMcpServersToVSCode

\* any settings file -> installMcpServersToVSCode, any number of times
SpecInstall == InitInstall /\ [][NextInstall]_vars

-----------------------------------------------------------------------------
(* Activation of the extension and the set-up of the workspace.  activate   *)
(* awaits its first autoInstallMcpServers call; everything after it runs    *)
(* without waiting: the welcome message, setupWorkspace and the second      *)
(* autoInstallMcpServers call continue after activate has returned.         *)

\* answers to the install prompt; undefined is a dismissed message
InstallChoices == {Some("Install Now"), Some("Skip"), Some("Don't Ask Again"), undefined}

\* answers to the welcome message
WelcomeSelections ==
    {Some("Open Chat"), Some("View Commands"), Some("Don't Show Again"), undefined}

\* a fresh installation: no flag is set, no activation has run; the settings
\* file is absent, rejected by JSON.parse, the JSON null, or holds the default
\* server; the workspace has no folder, or one folder whose target file the
\* user may hold, and the template bundled with the extension may be unreadable
InitHost ==
    /\ CoreIdle
    /\ globalState = [hasShownWelcome |-> FALSE, hasInstalledMcp |-> FALSE]
    /\ settingsFile \in
         {NoSettingsFile,
          SettingsFile(FALSE, 4, JsonObject(<< <<"editor.fontSize", JsonString("14")>> >>)),
          SettingsFile(TRUE, 2, JsonNull),
          SettingsFile(TRUE, 2, JsonObject(<< <<"mcp", JsonObject(<<
              <<"servers", JsonObject(defaultMcpServers)>> >>)>> >>))}
    /\ result = undefined
    /\ activation = NoActivation
    /\ messages = <<>>
    /\ workspace \in
         {NoWorkspace}
         \cup {[folders |-> 1, targetFile |-> t, sourceFile |-> s] :
                 t \in {"absent", "user"}, s \in BOOLEAN}
    /\ invocations = NoInvocations
    /\ chat = NoChat

\* the extension host starts and calls activate
Activate ==
    /\ activation.pc \in {"inactive", "active"}
    /\ activation.number < MaxActivations
    /\ activation' = [pc |-> "installing", number |-> activation.number + 1,
                      welcome |-> FALSE, prompt |-> FALSE]
    /\ messages' = Append(messages, [welcome |-> 0, install |-> 0])
    /\ invocations' = NoInvocations
    /\ UNCHANGED <<globalState, settingsFile, result, workspace, chat>>
    /\ UNCHANGED coreVars

\* autoInstallMcpServers up to its await of the prompt
AutoInstallMcpServers(asked, returned) ==
    /\ IF globalState.hasInstalledMcp
       THEN /\ activation' = returned
            /\ UNCHANGED <<globalState, messages>>
       ELSE IF checkExistingMcpServers(settingsFile)
       THEN /\ globalState' = [globalState EXCEPT !.hasInstalledMcp = TRUE]
            /\ activation' = returned
            /\ UNCHANGED messages
       ELSE /\ messages' = [messages EXCEPT ![activation.number].install = @ + 1]
            /\ activation' = asked
            /\ UNCHANGED globalState
    /\ UNCHANGED <<settingsFile, result, workspace, invocations, chat>>
    /\ UNCHANGED coreVars

\* autoInstallMcpServers after the user answered its prompt
InstallChoice(choice, returned) ==
    /\ activation' = returned
    /\ IF choice = Some("Don't Ask Again")
       THEN /\ globalState' = [globalState EXCEPT !.hasInstalledMcp = TRUE]
            /\ UNCHANGED <<settingsFile, result>>
       ELSE IF choice = Some("Install Now")
       THEN /\ settingsFile' = installMcpServersToVSCode(settingsFile).file
            /\ result' = Some(installMcpServersToVSCode(settingsFile).result)
            /\ globalState' =
                 IF installMcpServersToVSCode(settingsFile).result.success
                 THEN [globalState EXCEPT !.hasInstalledMcp = TRUE]
                 ELSE globalState
       ELSE UNCHANGED <<globalState, settingsFile, result>>
    /\ UNCHANGED <<messages, workspace, invocations, chat>>
    /\ UNCHANGED coreVars

\* activate, line 93: the awaited call
AutoInstallFirst ==
    /\ activation.pc = "installing"
    /\ AutoInstallMcpServers([activation EXCEPT !.pc = "asked"],
                             [activation EXCEPT !.pc = "registered"])

\* the user answers the prompt of the awaited call
ChooseInstallFirst ==
    /\ activation.pc = "asked"
    /\ \E choice \in InstallChoices :
           InstallChoice(choice, [activation EXCEPT !.pc = "registered"])

\* activate, lines 150-169: the welcome message
ShowWelcome ==
    /\ activation.pc = "registered"
    /\ IF ~globalState.hasShownWelcome
       THEN /\ messages' = [messages EXCEPT ![activation.number].welcome = @ + 1]
            /\ activation' = [activation EXCEPT !.pc = "welcomed", !.welcome = TRUE]
       ELSE /\ activation' = [activation EXCEPT !.pc = "welcomed"]
            /\ UNCHANGED messages
    /\ UNCHANGED <<globalState, settingsFile, result, workspace, invocations, chat>>
    /\ UNCHANGED coreVars

\* the then-callback of the welcome message
WelcomeSelection ==
    /\ activation.welcome
    /\ activation.pc = "active"
    /\ \E selection \in WelcomeSelections :
           globalState' = IF selection = Some("Don't Show Again")
                          THEN [globalState EXCEPT !.hasShownWelcome = TRUE]
                          ELSE globalState
    /\ activation' = [activation EXCEPT !.welcome = FALSE]
    /\ UNCHANGED <<settingsFile, result, messages, workspace, invocations, chat>>
    /\ UNCHANGED coreVars

\* setupWorkspace: nothing without a folder, else setupWorkspaceFolder, which
\* runs up to its await of fs.stat
setupWorkspace ==
    LET free == CHOOSE i \in 1..MaxInvocations :
                    invocations[i] = "none" /\ \A j \in 1..(i - 1) : invocations[j] # "none"
    IN  IF workspace.folders = 0 THEN invocations
        ELSE [invocations EXCEPT ![free] = "stat"]

\* activate, line 172: setupWorkspace, not awaited
SetupWorkspace ==
    /\ activation.pc = "welcomed"
    /\ \E i \in 1..MaxInvocations : invocations[i] = "none"
    /\ invocations' = setupWorkspace
    /\ activation' = [activation EXCEPT !.pc = "setup"]
    /\ UNCHANGED <<globalState, settingsFile, result, messages, workspace, chat>>
    /\ UNCHANGED coreVars

\* activate, line 175: the second call, not awaited
AutoInstallSecond ==
    /\ activation.pc = "setup"
    /\ AutoInstallMcpServers([activation EXCEPT !.pc = "active", !.prompt = TRUE],
                             [activation EXCEPT !.pc = "active"])

\* the user answers the prompt of the second call
ChooseInstallSecond ==
    /\ activation.prompt
    /\ \E choice \in InstallChoices :
           InstallChoice(choice, [activation EXCEPT !.prompt = FALSE])

\* command srebuddy.setupTemplates
SetupTemplates ==
    /\ activation.pc = "active"
    /\ workspace.folders > 0
    /\ \E i \in 1..MaxInvocations : invocations[i] = "none"
    /\ invocations' = setupWorkspace
    /\ UNCHANGED <<globalState, settingsFile, result, activation, messages, workspace, chat>>
    /\ UNCHANGED coreVars

\* setupWorkspaceFolder: fs.stat(targetFile) answers
Stat(i) ==
    /\ invocations[i] = "stat"
    /\ invocations' = [invocations EXCEPT ![i] =
           IF workspace.targetFile # "absent" THEN "none" ELSE "read"]
    /\ UNCHANGED <<globalState, settingsFile, result, activation, messages, workspace, chat>>
    /\ UNCHANGED coreVars

\* setupWorkspaceFolder: fs.readFile(sourceFile) answers
ReadFile(i) ==
    /\ invocations[i] = "read"
    /\ invocations' = [invocations EXCEPT ![i] =
           IF workspace.sourceFile THEN "mkdir" ELSE "none"]
    /\ UNCHANGED <<globalState, settingsFile, result, activation, messages, workspace, chat>>
    /\ UNCHANGED coreVars

\* setupWorkspaceFolder: fs.createDirectory(githubDir) answers
CreateDirectory(i) ==
    /\ invocations[i] = "mkdir"
    /\ invocations' = [invocations EXCEPT ![i] = "write"]
    /\ UNCHANGED <<globalState, settingsFile, result, activation, messages, workspace, chat>>
    /\ UNCHANGED coreVars

\* setupWorkspaceFolder: fs.writeFile(targetFile, templateContent)
WriteFile(i) ==
    /\ invocations[i] = "write"
    /\ workspace' = [workspace EXCEPT !.targetFile = "template"]
    /\ invocations' = [invocations EXCEPT ![i] = "created"]
    /\ UNCHANGED <<globalState, settingsFile, result, activation, messages, chat>>
    /\ UNCHANGED coreVars

\* setupWorkspaceFolder: the user answers the message about the created file
Created(i) ==
    /\ invocations[i] = "created"
    /\ invocations' = [invocations EXCEPT ![i] = "none"]
    /\ UNCHANGED <<globalState, settingsFile, result, activation, messages, workspace, chat>>
    /\ UNCHANGED coreVars

\* the awaits of setupWorkspaceFolder are answered once activate has returned
SetupWorkspaceFolder ==
    /\ activation.pc = "active"
    /\ \E i \in 1..MaxInvocations :
           Stat(i) \/ ReadFile(i) \/ CreateDirectory(i) \/ WriteFile(i) \/ Created(i)

NextHost ==
    \/ Activate
    \/ AutoInstallFirst
    \/ ChooseInstallFirst
    \/ ShowWelcome
    \/ WelcomeSelection
    \/ SetupWorkspace
    \/ AutoInstallSecond
    \/ ChooseInstallSecond
    \/ SetupTemplates
    \/ SetupWorkspaceFolder

\* activations of one installation, the user's answers and the calls of
\* setupWorkspaceFolder, in every interleaving
SpecHost == InitHost /\ [][NextHost]_vars

-----------------------------------------------------------------------------
(* The chat participant.  A request is handled by handleRequest; the token  *)
(* of the request may be cancelled at any moment at which the handler waits. *)
(* chat.stream lists what the handler has emitted: "progress", "markdown",  *)
(* "button".                                                                *)

\* request.command: "" is a request without a command
ChatCommands ==
    {"", "implement", "configure", "monitor", "deploy", "troubleshoot", "docs", "status"}

\* the commands whose handlers parse "<command> <prompt>"
TaskCommands == {"implement", "configure", "monitor", "deploy", "troubleshoot"}

\* request.prompt
ChatPrompts ==
    {"dynatrace", "monitoring stack", "install nginx in prod", "the release",
     "setup guide", "alerting rules"}

\* searchQueries of getMcpDocumentation
SearchQueries == 5

\* what a handler has emitted when it awaits getMcpDocumentation
BeforeLookup(cmd) ==
    IF cmd \in TaskCommands THEN <<"progress", "markdown", "markdown", "progress">>
    ELSE <<"progress">>

\* addActionButtons
addActionButtons(stream, action) ==
    stream
    \o (IF action = "implement" THEN <<"button", "button">>
        ELSE IF action \in {"deploy", "monitor", "troubleshoot"} THEN <<"button">>
        ELSE <<>>)
    \o <<"button">>

\* the handler continues although cancellation was requested
afterLookup_Unchecked(c) ==
    [c EXCEPT !.pc = "composing", !.stream = Append(@, "progress")]

\* a handler after await getMcpDocumentation: the cancellation test, then
\* the progress message
afterLookup(c) ==
    IF c.cancelled THEN [c EXCEPT !.pc = "returned"]
    ELSE [c EXCEPT !.pc = "composing", !.stream = Append(@, "progress")]

\* a handler after callLanguageModel returned llmResponse ("" is null)
afterLanguageModel(c, llmResponse) ==
    [c EXCEPT !.pc = "done",
              !.stream = IF c.command \in TaskCommands
                         THEN addActionButtons(Append(@, "markdown"), c.command)
                         ELSE Append(@, "markdown")]

\* buildEnhancedPrompt
buildEnhancedPrompt(ts, parsedTask, cmd, mcpDocumentation) ==
    IF trim(mcpDocumentation) # ""
    THEN composePrompt(ts, parsedTask, cmd, "none")
         \o "\n\n## Additional Context from Internal Documentation\n\n"
         \o mcpDocumentation
    ELSE composePrompt(ts, parsedTask, cmd, "none")

\* the participant is registered, no request has arrived
InitChat ==
    /\ CoreIdle
    /\ globalState = [hasShownWelcome |-> FALSE, hasInstalledMcp |-> FALSE]
    /\ settingsFile = NoSettingsFile
    /\ result = undefined
    /\ activation = NoActivation
    /\ messages = <<>>
    /\ workspace = NoWorkspace
    /\ invocations = NoInvocations
    /\ chat = NoChat

\* the user sends a request to the participant
Request ==
    /\ chat.pc \in {"idle", "done", "returned"}
    /\ \E cmd \in ChatCommands, p \in ChatPrompts :
           chat' = [NoChat EXCEPT !.pc = "received", !.command = cmd, !.prompt = p]
    /\ UNCHANGED <<globalState, settingsFile, result, activation, messages, workspace,
                   invocations>>
    /\ UNCHANGED coreVars

\* the user cancels the request
Cancel ==
    /\ chat.pc \in {"received", "lookup", "searching", "composing", "selecting",
                    "responding"}
    /\ ~chat.cancelled
    /\ chat' = [chat EXCEPT !.cancelled = TRUE]
    /\ UNCHANGED <<globalState, settingsFile, result, activation, messages, workspace,
                   invocations>>
    /\ UNCHANGED coreVars

\* handleRequest up to the first await of the handler it selects
HandleRequest ==
    /\ chat.pc = "received"
    /\ chat' =
         IF chat.cancelled THEN [chat EXCEPT !.pc = "done"]
         ELSE IF chat.command = ""
         THEN [chat EXCEPT !.pc = "lookup", !.query = 1,
                           !.parsedTask = parseTask(chat.prompt),
                           !.stream = BeforeLookup(chat.command)]
         ELSE IF chat.command \in TaskCommands
         THEN [chat EXCEPT !.pc = "lookup", !.query = 1,
                           !.parsedTask = parseTask(chat.command \o " " \o chat.prompt),
                           !.stream = BeforeLookup(chat.command)]
         ELSE IF chat.command = "docs"
         THEN [chat EXCEPT !.pc = "searching", !.stream = <<"progress">>]
         ELSE [chat EXCEPT !.pc = "done", !.stream = <<"markdown">>]
    /\ UNCHANGED <<globalState, settingsFile, result, activation, messages, workspace,
                   invocations>>
    /\ UNCHANGED coreVars

\* getMcpDocumentation: a search is answered; the loop issues the next one,
\* or the lookup returns and the handler tests the token
SearchDocumentation ==
    /\ chat.pc = "lookup"
    /\ \E mcpDocumentation \in {"", "runbook"} :
           chat' = IF chat.query < SearchQueries /\ ~chat.cancelled
                   THEN [chat EXCEPT !.query = @ + 1]
                   ELSE afterLookup([chat EXCEPT !.mcpDocumentation = mcpDocumentation])
    /\ UNCHANGED <<globalState, settingsFile, result, activation, messages, workspace,
                   invocations>>
    /\ UNCHANGED coreVars

\* handleDocsCommand: the search is answered with a text or with a failure
DocsAnswered ==
    /\ chat.pc = "searching"
    /\ \E success \in BOOLEAN :
           chat' = [chat EXCEPT !.pc = "done",
                                !.stream = @ \o (IF success THEN <<"markdown", "markdown">>
                                                 ELSE <<"markdown", "markdown", "markdown">>)]
    /\ UNCHANGED <<globalState, settingsFile, result, activation, messages, workspace,
                   invocations>>
    /\ UNCHANGED coreVars

\* buildEnhancedPrompt, which asks the loader for the prompt of the request
BuildEnhancedPrompt ==
    /\ chat.pc = "composing"
    /\ templates' = loadPromptTemplates(file, templates)
    /\ LET cmd == IF chat.command = "" THEN toLowerCase(chat.parsedTask.type)
                  ELSE chat.command
       IN  chat' = [chat EXCEPT !.pc = "selecting",
                                !.enhancedPrompt = Some(buildEnhancedPrompt(
                                    templates', chat.parsedTask, cmd, chat.mcpDocumentation))]
    /\ UNCHANGED <<globalState, settingsFile, result, activation, messages, workspace,
                   invocations>>
    /\ UNCHANGED <<pc, input, context, plan, command, template, file, prompt, fault>>

\* callLanguageModel: selectChatModels answers; with a model the request is sent
SelectChatModels ==
    /\ chat.pc = "selecting"
    /\ \E models \in 0..1 :
           chat' = IF models = 0 THEN afterLanguageModel(chat, "")
                   ELSE [chat EXCEPT !.pc = "responding", !.requests = @ + 1]
    /\ UNCHANGED <<globalState, settingsFile, result, activation, messages, workspace,
                   invocations>>
    /\ UNCHANGED coreVars

\* callLanguageModel: the model answers with a text, or with nothing or an error
Respond ==
    /\ chat.pc = "responding"
    /\ \E llmResponse \in {"", "response"} : chat' = afterLanguageModel(chat, llmResponse)
    /\ UNCHANGED <<globalState, settingsFile, result, activation, messages, workspace,
                   invocations>>
    /\ UNCHANGED coreVars

NextChat ==
    \/ Request
    \/ Cancel
    \/ HandleRequest
    \/ SearchDocumentation
    \/ DocsAnswered
    \/ BuildEnhancedPrompt
    \/ SelectChatModels
    \/ Respond

\* chat requests, one at a time, each cancelled at any moment or not at all
SpecChat == InitChat /\ [][NextChat]_vars

-----------------------------------------------------------------------------
(* Properties of the classifier, checked under Spec *)

\* the smallest element of a non-empty set of integers
Least(S) == CHOOSE x \in S : \A y \in S : x <= y

\* the categories in the priority order the specification states
TypePriority == << [type |-> "monitor",      pattern |-> MonitorPattern],
                   [type |-> "implement",    pattern |-> ImplementPattern],
                   [type |-> "configure",    pattern |-> ConfigurePattern],
                   [type |-> "deploy",       pattern |-> DeployPattern],
                   [type |-> "docs",         pattern |-> DocsPattern],
                   [type |-> "troubleshoot", pattern |-> TroubleshootPattern] >>

\* C1: the type parseTask returns is the first category, in the order
\* Monitor, Implement, Configure, Deploy, Docs, Troubleshoot, whose pattern
\* matches the lower-cased input, and Implement when no pattern matches; so an
\* input matching a Monitor and an Implement pattern resolves to Monitor.
C1_TypeFirstMatch ==
    pc = "parsed" =>
        LET lower   == toLowerCase(input)
            matches == {k \in 1..Len(TypePriority) : RegexTest(TypePriority[k].pattern, lower)}
        IN  /\ context.type = IF matches = {} THEN "implement"
                              ELSE TypePriority[Least(matches)].type
            /\ (1 \in matches /\ 2 \in matches) => context.type = "monitor"

\* C1 witness: a parsed input that matches a Monitor and an Implement pattern,
\* the Implement keyword standing first in the text, resolved to Monitor
C1_Witness ==
    /\ pc = "parsed"
    /\ input = "install Dashboard"
    /\ RegexTest(MonitorPattern, toLowerCase(input))
    /\ RegexTest(ImplementPattern, toLowerCase(input))
    /\ context.type = "monitor"

\* the tools whose signature matches the input, whatever the letter case
MatchingTools(in) ==
    {k \in 1..Len(toolPatterns) : RegexTestI(toolPatterns[k].pattern, in)}

\* C2: the target is the canonical name of the first tool signature, in the
\* order of the list, that matches the input; when none matches it is the
\* first whitespace-separated token (of the lower-cased input) longer than 3
\* characters that is not a stopword, and "unknown" when there is no such token.
C2_TargetResolution ==
    pc = "parsed" =>
        LET hits   == MatchingTools(input)
            tokens == SplitWhitespace(toLowerCase(input))
            kept   == {i \in 1..Len(tokens) :
                          Len(tokens[i]) > 3 /\ tokens[i] \notin Stopwords}
        IN  context.target = IF hits # {} THEN toolPatterns[Least(hits)].tool
                             ELSE IF kept # {} THEN tokens[Least(kept)]
                             ELSE "unknown"

\* C2 witness: the example of the specification, three stopwords or short
\* tokens in front of the token that becomes the target
C2_Witness ==
    /\ pc = "parsed"
    /\ input = "the for and xyzzy"
    /\ context.target = "xyzzy"

\* C3 as stated: whenever the input contains a keyword of a tool, the target
\* is that tool's canonical name.
C3_AnyKeywordWins ==
    pc = "parsed" =>
        \A k \in MatchingTools(input) : context.target = toolPatterns[k].tool

\* C3 as amended: whenever the input contains a keyword of a tool and no
\* keyword of a tool earlier in the signature order, the target is that
\* tool's canonical name, whatever the letter case of the keyword and the
\* words around it.
C3_EarliestKeywordWins ==
    pc = "parsed" =>
        \A k \in MatchingTools(input) :
            (\A j \in 1..(k - 1) : j \notin MatchingTools(input))
                => context.target = toolPatterns[k].tool

\* C3 witness: a keyword in mixed case with another word after it
C3_Witness ==
    /\ pc = "parsed"
    /\ input = "Kubernetes Server "
    /\ MatchingTools(input) = {5}
    /\ context.target = "kubernetes"

\* C4: the descriptor parseTask returns, for every input, has a type that is
\* one of the six enum values and a target that is a non-empty string.
C4_Total ==
    pc = "parsed" => /\ context.type \in SreTaskType
                     /\ context.target \in STRING
                     /\ Len(context.target) > 0
                     /\ context.rawInput = input

\* C4 witness: an input of whitespace only, which has no token to offer
C4_Witness ==
    /\ pc = "parsed"
    /\ input = " \n"
    /\ context.type = "implement"
    /\ context.target = "unknown"

\* the descriptor fields other than rawInput agree
SameFields(a, b) ==
    /\ a.type = b.type
    /\ a.target = b.target
    /\ a.parameters = b.parameters
    /\ a.environment = b.environment
    /\ a.urgency = b.urgency

\* C5: inputs that differ only in letter case yield descriptors with the same
\* type, target, parameters, environment and urgency: the descriptor of the
\* input agrees with the descriptors of its upper-cased and lower-cased forms.
C5_CaseInsensitive ==
    pc = "parsed" =>
        /\ SameFields(context, parseTask(toUpperCase(input)))
        /\ SameFields(context, parseTask(toLowerCase(input)))
        /\ context.rawInput = input

\* C5 witness: a mixed-case input with a parameter and an environment
C5_Witness ==
    /\ pc = "parsed"
    /\ input = "Namespace my-ns Production"
    /\ input # toLowerCase(input)
    /\ input # toUpperCase(input)
    /\ context.parameters = << <<"namespace", "my-ns">> >>
    /\ context.environment = Some("production")

\* the urgency levels in the priority order the specification states
UrgencyPriority == << [urgency |-> "high",   pattern |-> HighUrgencyPattern],
                      [urgency |-> "medium", pattern |-> MediumUrgencyPattern],
                      [urgency |-> "low",    pattern |-> LowUrgencyPattern] >>

\* C6: the environment is the first of production, staging, development,
\* testing whose pattern matches the input, the urgency the first of high,
\* medium, low whose pattern matches; a field without a match is undefined.
C6_EnvironmentUrgencyFirstMatch ==
    pc = "parsed" =>
        LET lower == toLowerCase(input)
            envs  == {k \in 1..Len(environmentPatterns) :
                         RegexTest(environmentPatterns[k].pattern, lower)}
            urgs  == {k \in 1..Len(UrgencyPriority) :
                         RegexTest(UrgencyPriority[k].pattern, lower)}
        IN  /\ <<environmentPatterns[1].env, environmentPatterns[2].env,
                 environmentPatterns[3].env, environmentPatterns[4].env>>
                   = <<"production", "staging", "development", "testing">>
            /\ context.environment = IF envs = {} THEN undefined
                                     ELSE Some(environmentPatterns[Least(envs)].env)
            /\ context.urgency = IF urgs = {} THEN undefined
                                 ELSE Some(UrgencyPriority[Least(urgs)].urgency)

\* C6 witness: staging and production keywords, low and high urgency
\* keywords, each pair with the lower priority first in the text
C6_Witness ==
    /\ pc = "parsed"
    /\ input = "stage to live eventually, ASAP"
    /\ context.environment = Some("production")
    /\ context.urgency = Some("high")

-----------------------------------------------------------------------------
(* Properties of the plan synthesizer *)

\* the element x occurs in the sequence seq
Contains(seq, x) == \E i \in 1..Len(seq) : seq[i] = x

\* C7 (SpecPlan): a plan for a production descriptor has riskLevel high and
\* prerequisites with change-management approval and backup verification;
\* a plan for any other descriptor has neither of the two prerequisites.
C7_ProductionPlan ==
    pc = "planned" =>
        IF context.environment = Some("production")
        THEN /\ plan.riskLevel = "high"
             /\ Contains(plan.prerequisites, "Change management approval")
             /\ Contains(plan.prerequisites, "Backup verification")
        ELSE /\ ~Contains(plan.prerequisites, "Change management approval")
             /\ ~Contains(plan.prerequisites, "Backup verification")

\* C7 witness: a plan for a low-urgency production descriptor
C7_Witness ==
    /\ pc = "planned"
    /\ context.environment = Some("production")
    /\ context.urgency = Some("low")
    /\ plan.riskLevel = "high"
    /\ Contains(plan.prerequisites, "Change management approval")

C9_WellFormedPlan ==
    pc = "planned" =>
        /\ plan.taskSummary # ""
        /\ Len(plan.steps) >= 1
        /\ \A i \in 1..Len(plan.steps) : plan.steps[i].step = i
        /\ Len(plan.prerequisites) >= 1
        /\ Len(plan.rollbackSteps) >= 1
        /\ plan.riskLevel \in {"low", "medium", "high"}

\* C9 witness: the plan of a request without a tool keyword, built by the
\* generic four-step generator
C9_Witness ==
    /\ pc = "planned"
    /\ input = "xyzzy"
    /\ plan.taskSummary = "Implement xyzzy"
    /\ Len(plan.steps) = 4

-----------------------------------------------------------------------------
(* Properties of the template matcher, checked under SpecMatch *)

\* C10: the matcher returns no template or a template whose command is the
\* requested command.
C10_MatchedCommand ==
    pc = "matched" =>
        \/ template = undefined
        \/ template[1].command = command

\* C10 witness: a template is returned although a template of another
\* command, with the same example and more matching tags, stands before it
C10_Witness ==
    /\ pc = "matched"
    /\ command = "implement"
    /\ Len(templates) = 2
    /\ templates[1].command = "deploy"
    /\ RatGreater(calculateSimilarityScore(context, templates[1]),
                  calculateSimilarityScore(context, templates[2]))
    /\ template = Some(templates[2])

\* the indices of the templates of the requested command
Candidates == {i \in 1..Len(templates) : templates[i].command = command}

\* the score of the i-th template for the request
Score(i) == calculateSimilarityScore(context, templates[i])

\* the i-th template has one example, the text "<rawInput> <target>"
IdenticalExample(i) ==
    templates[i].examples = << context.rawInput \o " " \o context.target >>

\* the share of the whitespace-separated tokens of an example that contain,
\* or are contained in, a token of the task text
TokenCoverage(example, taskText) ==
    LET exampleWords == SplitWhitespace(toLowerCase(example))
        taskWords    == SplitWhitespace(taskText)
    IN  << Cardinality({k \in 1..Len(exampleWords) :
                           \E t \in 1..Len(taskWords) :
                               \/ Includes(taskWords[t], exampleWords[k])
                               \/ Includes(exampleWords[k], taskWords[t])}),
           Max(Len(exampleWords), Len(taskWords)) >>

\* the template shares tokens with the task text, and no example of it
\* shares all of them
PartialOverlap(t) ==
    LET taskText == toLowerCase(context.rawInput \o " " \o context.target)
    IN  /\ \E k \in 1..Len(t.examples) : TokenCoverage(t.examples[k], taskText)[1] > 0
        /\ \A k \in 1..Len(t.examples) :
               LET c == TokenCoverage(t.examples[k], taskText)
               IN  c[1] < c[2]

\* C11 as stated: a template of the requested command whose sole example is
\* the text "<rawInput> <target>" is the one selected whenever the competing
\* templates overlap the task text only in part and all scores exceed 0.3.
C11_IdenticalBeatsPartial ==
    pc = "matched" =>
        \A i \in Candidates :
            ( /\ IdenticalExample(i)
              /\ \A j \in Candidates :
                    /\ Score(j)[1] * 10 > 3 * Score(j)[2]
                    /\ j # i => PartialOverlap(templates[j]) )
                => template = Some(templates[i])

\* C11 as amended: a template of the requested command whose sole example is
\* the text "<rawInput> <target>" scores 1.0 on that example, so at least 1.0
\* in all, and is the one selected whenever every candidate before it scores
\* strictly less and no candidate after it scores strictly more.
C11_IdenticalExampleSelected ==
    pc = "matched" =>
        \A i \in Candidates :
            IdenticalExample(i) =>
                /\ LET one == ExampleScoreSum(templates[i].examples,
                                  toLowerCase(context.rawInput \o " " \o context.target), 1)
                   IN  one[1] = one[2]
                /\ Score(i)[1] >= Score(i)[2]
                /\ ( /\ \A j \in Candidates : j < i => RatGreater(Score(i), Score(j))
                     /\ \A j \in Candidates : j > i => ~RatGreater(Score(j), Score(i)) )
                       => template = Some(templates[i])

\* C11 witness: the template with the identical example is selected after a
\* competitor that overlaps the task text in part and scores more than 0.3
C11_Witness ==
    /\ pc = "matched"
    /\ Len(templates) = 2
    /\ Candidates = {1, 2}
    /\ IdenticalExample(2)
    /\ PartialOverlap(templates[1])
    /\ Score(1)[1] * 10 > 3 * Score(1)[2]
    /\ template = Some(templates[2])
    /\ templates[1] # templates[2]

\* C12: the matcher returns the candidate with the highest score, the
\* earliest in corpus order of those that share it, and no template when
\* there is no candidate or the highest score is 0.3 or less.
C12_StrictBestEarliestTie ==
    pc = "matched" =>
        LET top == {i \in Candidates : \A j \in Candidates : ~RatGreater(Score(j), Score(i))}
        IN  IF top = {} \/ \A i \in top : Score(i)[1] * 10 <= 3 * Score(i)[2]
            THEN template = undefined
            ELSE template = Some(templates[Least(top)])

\* C12 witness: two different candidates share the highest score and the
\* first of them is returned
C12_Witness ==
    /\ pc = "matched"
    /\ Candidates = {1, 2}
    /\ templates[1] # templates[2]
    /\ Score(1)[1] * Score(2)[2] = Score(2)[1] * Score(1)[2]
    /\ template = Some(templates[1])

-----------------------------------------------------------------------------
(* Properties of the prompt composer *)

\* the commands initializeFallbackPrompts registers a body for
FallbackCommands == {"implement", "deploy", "monitor", "configure", "troubleshoot"}

\* C13: the composed prompt is built from the body of the matched template
\* when the matcher returned one, otherwise from the static fallback body of
\* the command when one is registered, otherwise it is the generic prompt; a
\* later source is used only when every earlier one is unavailable.
C13_BodyOrder ==
    pc = "composed" =>
        /\ (command \in FallbackCommands) = Truthy(MapGet(fallbackPrompts, command))
        /\ prompt = IF template # undefined
                    THEN buildPromptFromTemplate(template[1], context)
                    ELSE IF command \in FallbackCommands
                    THEN buildPromptFromFallback(MapGet(fallbackPrompts, command)[1], context)
                    ELSE buildGenericPrompt(context, command)

\* C13 witness: a template is matched for a command that has a fallback
\* body, and the prompt is built from the template
C13_Witness ==
    /\ pc = "composed"
    /\ command = "implement"
    /\ template # undefined
    /\ template[1].prompt = "Exact {target}"
    /\ prompt = "Exact {target}"
    /\ MapGet(fallbackPrompts, command) # undefined

\* the four placeholders of a prompt body
Placeholders == {"{target}", "{environment}", "{rawInput}", "{type}"}

\* C14 as stated: when the body of the matched template contains all four
\* placeholders, the prompt composed from it contains none of them.
C14_NoPlaceholderLeft ==
    (pc = "composed" /\ template # undefined) =>
        ((\A ph \in Placeholders : Includes(template[1].prompt, ph))
            => \A ph \in Placeholders : ~Includes(prompt, ph))

\* the value the composer puts in place of a placeholder
PlaceholderValue(ph, taskContext) ==
    CASE ph = "{target}"      -> OrDefault(taskContext.target, "infrastructure component")
      [] ph = "{environment}" -> OptOrDefault(taskContext.environment, "unspecified")
      [] ph = "{rawInput}"    -> taskContext.rawInput
      [] ph = "{type}"        -> taskContext.type

\* the body from index i on with every placeholder that is part of it
\* replaced by its value
RECURSIVE Substituted(_, _, _)
Substituted(body, taskContext, i) ==
    LET hits == {j \in i..Len(body) : \E ph \in Placeholders : StartsAt(body, j, ph)}
    IN  IF hits = {} THEN SubSeq(body, i, Len(body))
        ELSE LET j  == CHOOSE h \in hits : \A g \in hits : h <= g
                 ph == CHOOSE x \in Placeholders : StartsAt(body, j, x)
             IN  SubSeq(body, i, j - 1) \o PlaceholderValue(ph, taskContext)
                     \o Substituted(body, taskContext, j + Len(ph))

\* C15 as stated: when the static fallback body of the command is used,
\* every occurrence of the four placeholders that is part of the body is
\* replaced by the target, environment, rawInput and type of the descriptor.
C15_FallbackSubstituted ==
    (pc = "composed" /\ template = undefined /\ command \in FallbackCommands) =>
        prompt = Substituted(MapGet(fallbackPrompts, command)[1], context, 1)

\* C16 as stated: whenever the parameters of the descriptor are not empty,
\* the composed prompt holds an "Additional Context" block that lists every
\* key and value, whichever branch produced the body.
C16_ParametersListed ==
    (pc = "composed" /\ Len(context.parameters) > 0) =>
        /\ Includes(prompt, "Additional Context")
        /\ \A k \in 1..Len(context.parameters) :
               Includes(prompt, context.parameters[k][1] \o ": " \o context.parameters[k][2])

\* the read of the corpus file throws
LoadFaults == file.exists /\ ~file.readable

\* C17 as stated: composition returns a prompt, and when the load of the
\* corpus, the matching or the substitution faults, the prompt is the
\* generic prompt for the command and the descriptor.
C17_AnyFaultYieldsGeneric ==
    pc = "composed" =>
        /\ prompt \in STRING
        /\ (LoadFaults \/ fault # "none")
              => prompt = buildGenericPrompt(context, command)

\* C17 as amended: composition returns a prompt; when the matching or the
\* substitution faults, the prompt is the generic prompt for the command and
\* the descriptor; when only the read of the corpus file faults, the loader
\* absorbs it and the prompt is composed in the usual order, from the
\* template matched among the templates held, the fallback body or the
\* generic prompt.
C17_FaultsAbsorbed ==
    pc = "composed" =>
        /\ prompt \in STRING
        /\ fault \in Faults => prompt = buildGenericPrompt(context, command)
        /\ (LoadFaults /\ fault = "none") =>
              prompt = IF template # undefined
                       THEN buildPromptFromTemplate(template[1], context)
                       ELSE IF command \in FallbackCommands
                       THEN buildPromptFromFallback(MapGet(fallbackPrompts, command)[1], context)
                       ELSE buildGenericPrompt(context, command)

\* C17 witness: the substitution throws for a command that has a fallback
\* body while the corpus file cannot be read, and the generic prompt results
C17_Witness ==
    /\ pc = "composed"
    /\ LoadFaults
    /\ fault = "substitution"
    /\ command = "implement"
    /\ prompt = buildGenericPrompt(context, command)
    /\ prompt # buildPromptFromFallback(MapGet(fallbackPrompts, command)[1], context)

\* C18 as stated: a request made while the corpus file is absent or cannot
\* be read is matched against an empty template set; no template parsed
\* earlier is retained or selected.
C18_AbsentCorpusNoTemplates ==
    (pc = "composed" /\ (~file.exists \/ ~file.readable)) =>
        /\ templates = <<>>
        /\ template = undefined

-----------------------------------------------------------------------------
(* Properties of the corpus parser, checked under SpecCorpus *)

\* the characters \w matches, folded to lower case
WordChars == LowerLetters \cup Digits \cup {"_"}

\* the word of the header read with the three grammars as stated, the group
\* being one or more word characters: <<word>> lower-cased, or undefined
StatedHeaderWord(header) ==
    LET t == toLowerCase(header)
        GroupAt(i, a) ==
            LET good == {i + Len(b) : b \in {x \in a.before :
                            /\ StartsAt(t, i, x)
                            /\ RunEnd(t, i + Len(x), WordChars) > i + Len(x)
                            /\ StartsAt(t, RunEnd(t, i + Len(x), WordChars), a.after)}}
            IN  IF good = {} THEN 0 ELSE CHOOSE j \in good : TRUE
        hits == {i \in 1..Len(t) :
                    \E a \in 1..Len(headerPattern) : GroupAt(i, headerPattern[a]) # 0}
    IN  IF hits = {} THEN undefined
        ELSE LET i == Least(hits)
                 a == Least({k \in 1..Len(headerPattern) : GroupAt(i, headerPattern[k]) # 0})
                 b == GroupAt(i, headerPattern[a])
             IN  Some(SubSeq(t, b, RunEnd(t, b, WordChars) - 1))

\* what the line loop collects from a section
Collected(section) ==
    ParseLines(SplitLiteral(section, "\n", 1), 2,
               [currentSection |-> "", examples |-> <<>>, prompt |-> "", tags |-> <<>>])

\* the header line of a section
HeaderOf(section) == trim(SplitLiteral(section, "\n", 1)[1])

\* the top-level sections of the corpus file that are not blank
TopLevelSections ==
    LET all == SplitSections(file.content, 1)
    IN  SelectSeq(all, LAMBDA x : trim(x) # "")

\* the commands, in corpus order, of the sections the claim accepts: the
\* header holds a word in one of the three grammars, and the section has an
\* example and a prompt body
RECURSIVE StatedCommands(_, _)
StatedCommands(sections, i) ==
    IF i > Len(sections) THEN <<>>
    ELSE LET w == StatedHeaderWord(HeaderOf(sections[i]))
             c == Collected(sections[i])
         IN  (IF w # undefined /\ Len(c.examples) > 0 /\ c.prompt # "" THEN w ELSE <<>>)
                 \o StatedCommands(sections, i + 1)

\* C19 as stated: a top-level section whose header holds  SRE <word>
\* Prompt(s),  Prompt Template(s) for <word>  or  LLM <word> Instruction(s),
\* <word> being one or more word characters, is accepted with <word>,
\* lower-cased, as the command of its template, and a section whose header
\* matches none of the three is discarded.
C19_HeaderGrammar ==
    pc = "loaded" =>
        [k \in 1..Len(templates) |-> templates[k].command]
            = StatedCommands(TopLevelSections, 1)

\* the templates of the sections from i on, each section parsed alone
RECURSIVE SectionwiseTemplates(_, _)
SectionwiseTemplates(sections, i) ==
    IF i > Len(sections) THEN <<>>
    ELSE parsePromptTemplates(sections[i]) \o SectionwiseTemplates(sections, i + 1)

\* C20: every template the parser returns has at least one example and a
\* prompt body that is not empty; a section without an example or without a
\* body yields no template, and the templates returned are those of the
\* other sections, each as the section alone yields it, in corpus order.
C20_TemplatesComplete ==
    pc = "loaded" =>
        /\ \A k \in 1..Len(templates) :
              /\ Len(templates[k].examples) >= 1
              /\ templates[k].prompt # ""
        /\ \A i \in 1..Len(TopLevelSections) :
              LET c == Collected(TopLevelSections[i])
              IN  (Len(c.examples) = 0 \/ c.prompt = "")
                      => parsePromptTemplates(TopLevelSections[i]) = <<>>
        /\ templates = SectionwiseTemplates(TopLevelSections, 1)

\* C20 witness: a section with a prompt body and no example stands between
\* two sections that yield a template each
C20_Witness ==
    /\ pc = "loaded"
    /\ Len(TopLevelSections) = 3
    /\ HeaderCommand(HeaderOf(TopLevelSections[2])) # undefined
    /\ Collected(TopLevelSections[2]).examples = <<>>
    /\ Collected(TopLevelSections[2]).prompt # ""
    /\ Len(templates) = 2
    /\ templates[1].command = "\\w"
    /\ templates[2].command = "\\ww"

-----------------------------------------------------------------------------
(* The score formula, checked under SpecMatch *)

\* the sum of the coverage scores of the examples from k on, the tokens
\* being the whitespace-separated words
RECURSIVE StatedCoverageSum(_, _, _)
StatedCoverageSum(examples, taskText, k) ==
    IF k > Len(examples) THEN <<0, 1>>
    ELSE RatAdd(TokenCoverage(examples[k], taskText),
                StatedCoverageSum(examples, taskText, k + 1))

\* the score of a template as the formula states it
StatedScore(t) ==
    LET taskText == toLowerCase(context.rawInput \o " " \o context.target)
        bonus    == Cardinality({k \in 1..Len(t.tags) :
                                    Includes(taskText, toLowerCase(t.tags[k]))})
        total    == RatAdd(StatedCoverageSum(t.examples, taskText, 1), <<bonus, 2>>)
    IN  IF Len(t.examples) = 0 THEN <<0, 1>>
        ELSE <<total[1], total[2] * Len(t.examples)>>

\* C21 as stated: the score of a template is the sum of the coverage scores
\* of its examples plus 0.5 for each tag found in the lower-cased text
\* "<rawInput> <target>", divided by the number of examples; the coverage
\* score of an example is the number of its whitespace-separated tokens that
\* contain, or are contained in, a task token, divided by the larger of the
\* two token counts.
C21_ScoreFormula ==
    pc = "matched" =>
        \A i \in 1..Len(templates) :
            LET code   == calculateSimilarityScore(context, templates[i])
                stated == StatedScore(templates[i])
            IN  code[1] * stated[2] = stated[1] * code[2]

-----------------------------------------------------------------------------
(* The subsection state machine, checked under SpecCorpus *)

\* the subsection a heading line switches to, "" for any other line
StatedHeading(line) ==
    IF startsWith(line, "### Examples") \/ startsWith(line, "**Examples") THEN "examples"
    ELSE IF startsWith(line, "### Prompt") \/ startsWith(line, "**Prompt") THEN "prompt"
    ELSE IF startsWith(line, "### Tags") \/ startsWith(line, "**Tags") THEN "tags"
    ELSE ""

\* the state machine as stated, from line i on: the examples, the tags and
\* the lines of the body collected so far are in acc
RECURSIVE StatedMachine(_, _, _, _)
StatedMachine(lines, i, state, acc) ==
    IF i > Len(lines) THEN acc
    ELSE LET line == trim(lines[i])
         IN  IF StatedHeading(line) # ""
             THEN StatedMachine(lines, i + 1, StatedHeading(line), acc)
             ELSE StatedMachine(lines, i + 1, state,
                    IF state = "examples" /\ startsWith(line, "-")
                    THEN [acc EXCEPT !.examples = Append(@, trim(SubSeq(line, 2, Len(line))))]
                    ELSE IF state = "tags" /\ startsWith(line, "-")
                    THEN [acc EXCEPT !.tags = Append(@, trim(SubSeq(line, 2, Len(line))))]
                    ELSE IF state = "prompt" /\ line # ""
                    THEN [acc EXCEPT !.body = Append(@, line)]
                    ELSE acc)

\* the lines joined by newline characters
RECURSIVE JoinNewline(_)
JoinNewline(lines) ==
    IF lines = <<>> THEN ""
    ELSE IF Len(lines) = 1 THEN lines[1]
    ELSE lines[1] \o "\n" \o JoinNewline(Tail(lines))

\* C22 as stated: in an accepted section the heading lines switch the state
\* and are not content, the bulleted lines of the Examples state are the
\* examples and those of the Tags state the tags, marker stripped, and the
\* body is the non-blank lines of the Prompt state joined by newline
\* characters.
C22_SubsectionMachine ==
    pc = "loaded" =>
        \A i \in 1..Len(TopLevelSections) :
            LET r      == parsePromptTemplates(TopLevelSections[i])
                stated == StatedMachine(SplitLiteral(TopLevelSections[i], "\n", 1), 2, "",
                                        [examples |-> <<>>, tags |-> <<>>, body |-> <<>>])
            IN  r # <<>> =>
                    /\ \E k \in 1..Len(templates) : templates[k] = r[1]
                    /\ r[1].examples = stated.examples
                    /\ r[1].tags = stated.tags
                    /\ r[1].prompt = JoinNewline(stated.body)

-----------------------------------------------------------------------------
(* The time estimate, checked under SpecPlan *)

\* C23: the estimated time of the plan is "1-2 days" when the target is
\* kubernetes, prometheus or elasticsearch, otherwise "4-8 hours" when the
\* parameters have more than two entries, otherwise "1-2 hours"; it is always
\* one of the fixed time ranges.
C23_EstimateFollowsComplexity ==
    pc = "planned" =>
        /\ plan.estimatedTime =
              IF context.target \in {"kubernetes", "prometheus", "elasticsearch"}
              THEN "1-2 days"
              ELSE IF Len(context.parameters) > 2 THEN "4-8 hours"
              ELSE "1-2 hours"
        /\ plan.estimatedTime \in {"1-2 hours", "4-8 hours", "1-2 days", "2-4 hours"}

\* C23 witness: a plan for a target outside the complex tools with three
\* parameters is estimated at 4-8 hours
C23_Witness ==
    /\ pc = "planned"
    /\ context.target = "redis"
    /\ Len(context.parameters) = 3
    /\ plan.estimatedTime = "4-8 hours"

-----------------------------------------------------------------------------
(* The two risk formulas, checked under Spec *)

\* C24: the plan formula and the chat-surface formula disagree on
\* descriptors parseTask returns: for a request of high urgency that names
\* neither a production nor a staging environment and whose target holds
\* neither "database" nor "storage", the plan's risk is medium and the
\* chat-surface risk is LOW.
C24_RiskFormulasDisagree ==
    ( /\ pc = "planned"
      /\ context.urgency = Some("high")
      /\ context.environment \notin {Some("production"), Some("staging")}
      /\ ~Includes(context.target, "database")
      /\ ~Includes(context.target, "storage") )
        => /\ plan.riskLevel = "medium"
           /\ assessRiskChat(context) = "LOW"

\* C24 witness: a planned request on which the two formulas return
\* different levels
C24_Witness ==
    /\ pc = "planned"
    /\ context.urgency = Some("high")
    /\ plan.riskLevel = "medium"
    /\ assessRiskChat(context) = "LOW"
    /\ toUpperCase(plan.riskLevel) # assessRiskChat(context)

-----------------------------------------------------------------------------
(* The frame of the installer, checked under SpecInstall *)

\* the entries a settings file holds, as the editor reads them
EntriesOf(v) == IF v.kind = "object" THEN v.entries ELSE <<>>

\* every entry of the object before is in the object after, with its value
SameEntries(before, after, except) ==
    \A i \in 1..Len(EntriesOf(before)) :
        EntriesOf(before)[i][1] # except
            => Get(after, EntriesOf(before)[i][1]) = EntriesOf(before)[i][2]

\* the number of default servers with no entry under mcp.servers
MissingDefaults(v) ==
    Cardinality({i \in 1..Len(defaultMcpServers) :
        ~HasKey(Get(Get(v, "mcp"), "servers"), defaultMcpServers[i][1])})

\* C26: a call of installMcpServersToVSCode keeps every entry the settings
\* file held before it (the user's own entries, the other entries under mcp
\* and every entry under mcp.servers, default names included) with the same
\* value, and returns as addedCount the number of default servers that had no
\* entry before, whatever the file held
C26_OnlyAddsMissing ==
    [][(result' # result \/ settingsFile' # settingsFile) =>
        LET before == IF settingsFile.exists THEN settingsFile.value ELSE JsonUndefined
            after  == settingsFile'.value
        IN  /\ SameEntries(before, after, "mcp")
            /\ SameEntries(Get(before, "mcp"), Get(after, "mcp"), "servers")
            /\ SameEntries(Get(Get(before, "mcp"), "servers"),
                           Get(Get(after, "mcp"), "servers"), "")
            /\ result'[1].addedCount = MissingDefaults(before)]_vars

-----------------------------------------------------------------------------
(* Activation, checked under SpecHost *)

\* C25: once an activation has shown the welcome message, no later
\* activation sharing the global state shows it, whatever the user chose
C25_WelcomeOnlyOnce ==
    \A m \in 1..Len(messages) : \A n \in 1..Len(messages) :
        (m < n /\ messages[m].welcome > 0) => messages[n].welcome = 0

\* C27: a call of setupWorkspaceFolder writes the target file only while the
\* file does not exist, in every interleaving of the calls
C27_NeverOverwritten ==
    [][\A i \in 1..MaxInvocations :
          (invocations[i] = "write" /\ invocations'[i] = "created")
              => workspace.targetFile = "absent"]_vars

\* C28: an activation shows the install prompt at most once, and never
\* while srebuddy.hasInstalledMcp is set
C28_InstallPromptOnce ==
    [][\A n \in 1..Len(messages') :
          /\ messages'[n].install <= 1
          /\ (n <= Len(messages) /\ messages'[n].install > messages[n].install)
                 => ~globalState.hasInstalledMcp]_vars

-----------------------------------------------------------------------------
(* The chat handlers, checked under SpecChat *)

\* C29: when cancellation has been requested by the time the documentation
\* lookup returns, the handler (implement, configure, monitor, deploy,
\* troubleshoot, or the general query) returns there: it has composed no
\* prompt, sent no request to the language model, and its output is what it
\* had emitted before the lookup
C29_CancelledLookupReturns ==
    [][/\ (chat.pc = "lookup" /\ chat.cancelled /\ chat'.pc # "lookup")
            => (chat'.pc = "returned" /\ chat'.stream = chat.stream)
       /\ chat'.pc = "returned"
            => /\ chat'.cancelled
               /\ chat'.enhancedPrompt = undefined
               /\ chat'.requests = 0
               /\ chat'.stream = BeforeLookup(chat'.command)]_vars

\* C29 witness: a deploy request cancelled during the lookup has returned
\* after the lookup with the output of before the lookup
C29_Witness ==
    /\ chat.pc = "returned"
    /\ chat.command = "deploy"
    /\ chat.cancelled
    /\ chat.query > 1
    /\ chat.stream = BeforeLookup("deploy")

\* C30: the descriptor a command handler obtains by parsing
\* "<command> <prompt>" has the type of the command, for each of implement,
\* configure, monitor, deploy, troubleshoot and every prompt
C30_TypeIsCommand ==
    (chat.command \in TaskCommands /\ chat.parsedTask # NoContext)
        => chat.parsedTask.type = chat.command

====
